---- MODULE Spec2Model ----
(***************************************************************************)
(* Verification model of the redirect service (genzoai/redirect-service):  *)
(* the /go redirect pipeline, the OG metadata fetchers with the WordPress  *)
(* connection pool, and the URL builders of the redirect and stats routes. *)
(*                                                                         *)
(* JavaScript strings are sequences of one-character strings, so that      *)
(* concatenation, substitution and prefix tests are computed character by  *)
(* character.                                                              *)
(***************************************************************************)
EXTENDS Integers, Sequences, FiniteSets, TLC

(***************************************************************************)
(* JavaScript values read from the JSON configuration.                     *)
(***************************************************************************)
JSUndefined == [k |-> "undefined", s |-> <<>>, utm_source |-> <<>>, utm_medium |-> <<>>]
JSString(str) == [k |-> "string", s |-> str, utm_source |-> <<>>, utm_medium |-> <<>>]
JSObject(src, med) == [k |-> "object", s |-> <<>>, utm_source |-> src, utm_medium |-> med]
\* Object.prototype.constructor, reached by a property read through the prototype chain
JSFunctionObject == [k |-> "function", s |-> <<>>, utm_source |-> <<>>, utm_medium |-> <<>>]

\* ToBoolean: undefined and the empty string are falsy, objects and functions truthy
Truthy(v) == IF v.k = "undefined" THEN FALSE
             ELSE IF v.k = "string" THEN v.s # <<>>
             ELSE TRUE

\* a || b
JSOr(a, b) == IF Truthy(a) THEN a ELSE b

\* ToString as applied by a template literal `${v}`
ToStringJS(v) ==
  CASE v.k = "string" -> v.s
    [] v.k = "undefined" -> <<"u", "n", "d", "e", "f", "i", "n", "e", "d">>
    [] v.k = "object" -> <<"[", "o", "b", "j", "e", "c", "t", " ", "O", "b", "j", "e", "c", "t", "]">>
    [] v.k = "function" -> <<"f", "u", "n", "c", "t", "i", "o", "n", " ", "O", "b", "j", "e", "c", "t", "(", ")", " ", "{", " ", "[", "n", "a", "t", "i", "v", "e", " ", "c", "o", "d", "e", "]", " ", "}">>

(***************************************************************************)
(* String.prototype methods used by the URL builders.                      *)
(***************************************************************************)
\* s.startsWith(p)
StartsWith(s, p) == Len(s) >= Len(p) /\ SubSeq(s, 1, Len(p)) = p

\* s.indexOf(p), 1-based; 0 when p does not occur
IndexOf(s, p) ==
  LET hits == {i \in 1..(Len(s) - Len(p) + 1) : SubSeq(s, i, i + Len(p) - 1) = p}
  IN IF hits = {} THEN 0 ELSE CHOOSE i \in hits : \A j \in hits : i <= j

\* GetSubstitution for a string pattern (no capture groups): $$ $& $` $'
RECURSIVE GetSubstitution(_, _, _, _)
GetSubstitution(repl, matched, before, after) ==
  IF repl = <<>> THEN <<>>
  ELSE IF Head(repl) = "$" /\ Len(repl) >= 2 /\ repl[2] \in {"$", "&", "`", "'"}
       THEN (CASE repl[2] = "$" -> <<"$">>
               [] repl[2] = "&" -> matched
               [] repl[2] = "`" -> before
               [] repl[2] = "'" -> after)
            \o GetSubstitution(SubSeq(repl, 3, Len(repl)), matched, before, after)
       ELSE <<Head(repl)>> \o GetSubstitution(Tail(repl), matched, before, after)

\* s.replace(pat, repl) with a string pattern: the first occurrence only
StringReplace(s, pat, repl) ==
  LET i == IndexOf(s, pat)
  IN IF i = 0 THEN s
     ELSE LET before == SubSeq(s, 1, i - 1)
              after == SubSeq(s, i + Len(pat), Len(s))
          IN before \o GetSubstitution(repl, pat, before, after) \o after

Https == <<"h", "t", "t", "p", "s", ":", "/", "/">>
Placeholder == <<"{", "a", "r", "t", "i", "c", "l", "e", "I", "d", "}">>
DefaultPattern == <<"/", "{", "a", "r", "t", "i", "c", "l", "e", "I", "d", "}", "/">>
UtmCampaign == <<"&", "u", "t", "m", "_", "c", "a", "m", "p", "a", "i", "g", "n", "=">>

(***************************************************************************)
(* The redirect target of GET /go/:source/:site/:articleId.                *)
(* cfg is the site's configuration object, utm the value stored under the  *)
(* source id, id the (already URL-decoded) route parameter.                *)
(***************************************************************************)
RedirectUrlPath(cfg, id) ==
  StringReplace(JSOr(cfg.url_pattern, JSString(DefaultPattern)).s, Placeholder, id)

BuildTargetUrl(cfg, utm, id) ==
  Https \o ToStringJS(cfg.domain) \o RedirectUrlPath(cfg, id)
        \o <<"?">> \o ToStringJS(utm) \o UtmCampaign \o id

\* the fallback location of a bot whose metadata is unresolvable
BareDomainUrl(cfg) == Https \o ToStringJS(cfg.domain)

(***************************************************************************)
(* buildArticleUrl of the stats route.                                     *)
(***************************************************************************)
BuildArticleUrl(cfg, id) ==
  LET urlPath == StringReplace(JSOr(cfg.url_pattern, JSString(DefaultPattern)).s, Placeholder, id)
      slashed == IF ~StartsWith(urlPath, <<"/">>) THEN <<"/">> \o urlPath ELSE urlPath
  IN Https \o ToStringJS(cfg.domain) \o slashed

(***************************************************************************)
(* detectBot: case-insensitive substring match against botPatterns.        *)
(***************************************************************************)
UpperToLower ==
  "A" :> "a" @@ "B" :> "b" @@ "C" :> "c" @@ "D" :> "d" @@ "E" :> "e" @@ "F" :> "f" @@ "G" :> "g" @@ "H" :> "h" @@ "I" :> "i" @@ "J" :> "j" @@ "K" :> "k" @@ "L" :> "l" @@ "M" :> "m" @@ "N" :> "n" @@ "O" :> "o" @@ "P" :> "p" @@ "Q" :> "q" @@ "R" :> "r" @@ "S" :> "s" @@ "T" :> "t" @@ "U" :> "u" @@ "V" :> "v" @@ "W" :> "w" @@ "X" :> "x" @@ "Y" :> "y" @@ "Z" :> "z"

ToLowerCase(s) == [i \in 1..Len(s) |-> IF s[i] \in DOMAIN UpperToLower THEN UpperToLower[s[i]] ELSE s[i]]

Includes(s, p) == IndexOf(s, p) # 0

botPatterns == <<
  <<"f", "a", "c", "e", "b", "o", "o", "k", "e", "x", "t", "e", "r", "n", "a", "l", "h", "i", "t">>,
  <<"F", "a", "c", "e", "b", "o", "t">>,
  <<"T", "w", "i", "t", "t", "e", "r", "b", "o", "t">>,
  <<"T", "e", "l", "e", "g", "r", "a", "m", "B", "o", "t">>,
  <<"S", "l", "a", "c", "k", "b", "o", "t">>,
  <<"W", "h", "a", "t", "s", "A", "p", "p">>,
  <<"L", "i", "n", "k", "e", "d", "I", "n", "B", "o", "t">>,
  <<"D", "i", "s", "c", "o", "r", "d", "b", "o", "t">>,
  <<"b", "o", "t">>,
  <<"c", "r", "a", "w", "l", "e", "r">>,
  <<"s", "p", "i", "d", "e", "r">>,
  <<"s", "c", "r", "a", "p", "e", "r">> >>

\* as detectBot, but without the two toLowerCase() calls
detectBotCaseSensitive(userAgent) ==
  IF userAgent = <<>> THEN FALSE
  ELSE \E i \in 1..Len(botPatterns) : Includes(userAgent, botPatterns[i])

detectBot(userAgent) ==
  IF userAgent = <<>> THEN FALSE
  ELSE \E i \in 1..Len(botPatterns) :
         Includes(ToLowerCase(userAgent), ToLowerCase(botPatterns[i]))

(***************************************************************************)
(* Configuration: config/utm-sources.json and config/sites.json, loaded    *)
(* once with require().  A property read obj[key] on the loaded object     *)
(* finds own properties and, failing that, the properties of               *)
(* Object.prototype.                                                       *)
(***************************************************************************)
ObjectPrototypeKeys == {"constructor", "toString", "valueOf", "hasOwnProperty"}

utmSources ==
  [fb |-> JSString(<<"u", "t", "m", "_", "s", "o", "u", "r", "c", "e", "=", "f", "b">>)]

NoSiteFields ==
  [domain |-> JSUndefined, og_method |-> JSUndefined, wp_db |-> JSUndefined,
   db |-> JSUndefined, url_pattern |-> JSUndefined]

SiteObject(f) == [k |-> "object"] @@ f

sites ==
  [blog |-> SiteObject([NoSiteFields EXCEPT
              !.domain = JSString(<<"b", ".", "i", "o">>),
              !.og_method = JSString(<<"w", "o", "r", "d", "p", "r", "e", "s", "s", "_", "d", "b">>),
              !.wp_db = JSString(<<"w", "p">>)]),
   news |-> SiteObject([NoSiteFields EXCEPT
              !.domain = JSString(<<"n", ".", "i", "o">>),
              !.og_method = JSString(<<"h", "t", "m", "l", "_", "f", "e", "t", "c", "h">>),
              !.url_pattern = JSString(<<"/", "n", "/", "{", "a", "r", "t", "i", "c", "l", "e", "I", "d", "}">>)])]

\* utmSources[source]
SourceLookup(source) ==
  IF source \in DOMAIN utmSources THEN utmSources[source]
  ELSE IF source \in ObjectPrototypeKeys THEN JSFunctionObject
  ELSE JSUndefined

\* sites[site]; a function object has none of the configuration fields
SiteLookup(site) ==
  IF site \in DOMAIN sites THEN sites[site]
  ELSE IF site \in ObjectPrototypeKeys THEN [k |-> "function"] @@ NoSiteFields
  ELSE [k |-> "undefined"] @@ NoSiteFields

\* connectionLimit of mainPool and of wpPool
connectionLimit == 10

(***************************************************************************)
(* Inputs of the pipeline model.                                           *)
(***************************************************************************)
Slots == 1..2
SourceIds == {"fb", "nosuch", "constructor"}
SiteIds == {"blog", "news", "nosite"}
ArticleIds == {<<"a", "b", "c">>}
UserAgents == {<<"M", "o", "z">>, <<"B", "o", "t">>}
\* rows the clicks table accepts before its inserts start to fail
MaxClicks == 1

VARIABLES
  req,        \* per slot: the /go request in flight and the position of its handler
  clicks,     \* rows of the clicks table, in insertion order
  wpInUse,    \* connections of wpPool currently checked out
  wpPool,     \* TRUE when the WP_DB_* variables are set and the pool was created
  urlCase,    \* inputs of the URL builders (site configuration, source value, articleId)
  urlOut,     \* what the URL builders returned for urlCase
  og,         \* one call of fetchOGData: its arguments and what it returned
  dates,      \* one call of getDateRange: clock, time zone, query and result
  stats,      \* one GET /api/stats request: headers, query, clicks rows and response
  html,       \* one call of fetchOGData for an html_fetch site: request, page and result
  bot,        \* one call of detectBot: the User-Agent header and the verdict
  upd,        \* one run of scripts/update.sh: its position, the installation and the service
  wp,         \* one post of the WordPress database and the metadata derived from it
  backfill    \* one run of backfillCountries: the clicks rows and the batch position

vars == <<req, clicks, wpInUse, wpPool, urlCase, urlOut, og, dates, stats,
          html, bot, upd, wp, backfill>>

NoResponse == [status |-> 0, location |-> <<>>, body |-> "", ogUrl |-> <<>>]

IdleRequest ==
  [pc |-> "idle", source |-> "", site |-> "", articleId |-> <<>>, userAgent |-> <<>>,
   isBot |-> FALSE, inserts |-> 0, insertOk |-> FALSE, ogData |-> "none",
   response |-> NoResponse]

\* res.status(n).send(text)
Send(rq, n, text) ==
  [rq EXCEPT !.pc = "done",
             !.response = [status |-> n, location |-> <<>>, body |-> text, ogUrl |-> <<>>]]

\* res.redirect(302, url)
Redirect(rq, url) ==
  [rq EXCEPT !.pc = "done",
             !.response = [status |-> 302, location |-> url, body |-> "", ogUrl |-> <<>>]]

TargetUrlOf(rq) == BuildTargetUrl(SiteLookup(rq.site), SourceLookup(rq.source), rq.articleId)

\* as AfterFetch, but a failed fetch is answered with the error page
AfterFetchErrorPage(rq, ogData) ==
  IF ogData = "null"
  THEN Send([rq EXCEPT !.ogData = "null"], 500, "Internal server error")
  ELSE [rq EXCEPT !.pc = "done", !.ogData = "metadata",
                  !.response = [status |-> 200, location |-> <<>>, body |-> "og-html",
                                ogUrl |-> TargetUrlOf(rq)]]

\* the handler from the point where fetchOGData has settled with ogData
AfterFetch(rq, ogData) ==
  IF ogData = "null"
  THEN Redirect([rq EXCEPT !.ogData = "null"], BareDomainUrl(SiteLookup(rq.site)))
  ELSE [rq EXCEPT !.pc = "done", !.ogData = "metadata",
                  !.response = [status |-> 200, location |-> <<>>, body |-> "og-html",
                                ogUrl |-> TargetUrlOf(rq)]]

WordpressDb == <<"w", "o", "r", "d", "p", "r", "e", "s", "s", "_", "d", "b">>
HtmlFetch == <<"h", "t", "m", "l", "_", "f", "e", "t", "c", "h">>
ApiMethod == <<"a", "p", "i">>

\* fetchOGData and the chosen fetcher up to their first await:
\* "null" (returned null), "getConnection" or "httpGet" (awaiting that call)
FetchOGDataStart(cfg, pool) ==
  LET method == JSOr(cfg.og_method, JSString(WordpressDb)).s
  IN CASE method = WordpressDb ->
            IF ~pool THEN "null"
            ELSE IF ~Truthy(JSOr(cfg.wp_db, cfg.db)) THEN "null"
            ELSE "getConnection"
       [] method = HtmlFetch -> "httpGet"
       [] method = ApiMethod -> "null"
       [] OTHER -> "null"

\* as ClickType, but every request is logged as a click
ClickTypeAlwaysClick(isBot) == "click"

\* the type argument the handler passes to logClick
ClickType(isBot) == IF isBot THEN "preview" ELSE "click"

\* as LogClickOutcome, but without the try/catch around the INSERT
LogClickRethrows(insertOk) == IF insertOk THEN "returned" ELSE "threw"

\* logClick: a rejected INSERT is caught and logged, the call returns either way
LogClickOutcome(insertOk) == IF insertOk THEN "returned" ELSE "returned"

\* the catch block of fetchOGFromWordPress returns null and leaves the
\* connection it holds checked out
InUseAfterQueryError(n) == n

\* connection.release()
InUseAfterRelease(n) == n - 1

(***************************************************************************)
(* GET /go/:source/:site/:articleId up to the first await.                 *)
(***************************************************************************)
Receive(r) ==
  /\ req[r].pc = "idle"
  /\ \E source \in SourceIds, site \in SiteIds, articleId \in ArticleIds, userAgent \in UserAgents :
       LET rq == [IdleRequest EXCEPT !.source = source, !.site = site,
                                     !.articleId = articleId, !.userAgent = userAgent,
                                     !.isBot = detectBot(userAgent)]
       IN req' = [req EXCEPT ![r] =
                    IF ~Truthy(SourceLookup(source)) THEN Send(rq, 404, "Unknown source")
                    ELSE IF ~Truthy(SiteLookup(site)) THEN Send(rq, 404, "Unknown site")
                    ELSE [rq EXCEPT !.pc = "logClick"]]
  /\ UNCHANGED <<clicks, wpInUse, wpPool, urlCase, urlOut, og, dates, stats, html, bot, upd, wp, backfill>>

(***************************************************************************)
(* The INSERT of logClick settles; the handler runs on to its next await   *)
(* or to its response.                                                     *)
(***************************************************************************)
LogClickSettled(r) ==
  /\ req[r].pc = "logClick"
  /\ \E insertOk \in BOOLEAN :
       /\ insertOk => Len(clicks) < MaxClicks
       /\ clicks' = IF insertOk
                    THEN Append(clicks, [source |-> req[r].source, site |-> req[r].site,
                                         article_id |-> req[r].articleId,
                                         type |-> ClickType(req[r].isBot),
                                         user_agent |-> req[r].userAgent])
                    ELSE clicks
       /\ LET rq == [req[r] EXCEPT !.inserts = @ + 1, !.insertOk = insertOk]
              start == FetchOGDataStart(SiteLookup(rq.site), wpPool)
          IN req' = [req EXCEPT ![r] =
                       IF LogClickOutcome(insertOk) = "threw"
                       THEN Send(rq, 500, "Internal server error")
                       ELSE IF rq.isBot
                            THEN IF start = "null" THEN AfterFetch(rq, "null")
                                 ELSE [rq EXCEPT !.pc = start]
                            ELSE Redirect(rq, TargetUrlOf(rq))]
  /\ UNCHANGED <<wpInUse, wpPool, urlCase, urlOut, og, dates, stats, html, bot, upd, wp, backfill>>

(***************************************************************************)
(* fetchOGFromWordPress.  wpPool has waitForConnections: true and          *)
(* queueLimit: 0: with every connection checked out getConnection() stays  *)
(* pending until one is released.                                          *)
(***************************************************************************)
GetConnection(r) ==
  /\ req[r].pc = "getConnection"
  /\ wpInUse < connectionLimit
  /\ \/ /\ wpInUse' = wpInUse + 1
        /\ req' = [req EXCEPT ![r] = [@ EXCEPT !.pc = "queryPost"]]
     \/ \* the connection cannot be opened: caught, null
        /\ wpInUse' = wpInUse
        /\ req' = [req EXCEPT ![r] = AfterFetch(@, "null")]
  /\ UNCHANGED <<clicks, wpPool, urlCase, urlOut, og, dates, stats, html, bot, upd, wp, backfill>>

\* a query of the fetcher rejects: catch, return null
QueryFailed(r) ==
  /\ wpInUse' = InUseAfterQueryError(wpInUse)
  /\ req' = [req EXCEPT ![r] = AfterFetch(@, "null")]

QueryPost(r) ==
  /\ req[r].pc = "queryPost"
  /\ \/ QueryFailed(r)
     \/ \* posts.length === 0
        /\ wpInUse' = InUseAfterRelease(wpInUse)
        /\ req' = [req EXCEPT ![r] = AfterFetch(@, "null")]
     \/ /\ wpInUse' = wpInUse
        /\ req' = [req EXCEPT ![r] = [@ EXCEPT !.pc = "queryThumbnail"]]
  /\ UNCHANGED <<clicks, wpPool, urlCase, urlOut, og, dates, stats, html, bot, upd, wp, backfill>>

QueryThumbnail(r) ==
  /\ req[r].pc = "queryThumbnail"
  /\ \/ QueryFailed(r)
     \/ \E hasThumbnail \in BOOLEAN :
          /\ wpInUse' = wpInUse
          /\ req' = [req EXCEPT ![r] =
                       [@ EXCEPT !.pc = IF hasThumbnail THEN "queryAttachment" ELSE "queryMeta"]]
  /\ UNCHANGED <<clicks, wpPool, urlCase, urlOut, og, dates, stats, html, bot, upd, wp, backfill>>

QueryAttachment(r) ==
  /\ req[r].pc = "queryAttachment"
  /\ \/ QueryFailed(r)
     \/ /\ wpInUse' = wpInUse
        /\ req' = [req EXCEPT ![r] = [@ EXCEPT !.pc = "queryMeta"]]
  /\ UNCHANGED <<clicks, wpPool, urlCase, urlOut, og, dates, stats, html, bot, upd, wp, backfill>>

QueryMeta(r) ==
  /\ req[r].pc = "queryMeta"
  /\ \/ QueryFailed(r)
     \/ /\ wpInUse' = InUseAfterRelease(wpInUse)
        /\ req' = [req EXCEPT ![r] = AfterFetch(@, "metadata")]
  /\ UNCHANGED <<clicks, wpPool, urlCase, urlOut, og, dates, stats, html, bot, upd, wp, backfill>>

(***************************************************************************)
(* fetchOGFromHTML: the axios request settles with a parsable page that    *)
(* has a title, or with null (timeout, connection error, status outside    *)
(* 200..399, no title).                                                    *)
(***************************************************************************)
HttpGet(r) ==
  /\ req[r].pc = "httpGet"
  /\ \E ogData \in {"metadata", "null"} : req' = [req EXCEPT ![r] = AfterFetch(@, ogData)]
  /\ UNCHANGED <<clicks, wpInUse, wpPool, urlCase, urlOut, og, dates, stats, html, bot, upd, wp, backfill>>

\* the response has been written; the slot takes the next request
Complete(r) ==
  /\ req[r].pc = "done"
  /\ req' = [req EXCEPT ![r] = IdleRequest]
  /\ UNCHANGED <<clicks, wpInUse, wpPool, urlCase, urlOut, og, dates, stats, html, bot, upd, wp, backfill>>

NoUrlCase == [cfg |-> <<>>, utm |-> <<>>, id |-> <<>>]
NoUrlOut == [pc |-> "none", targetUrl |-> <<>>, articleUrl |-> <<>>]
NoOg == [pc |-> "none"]
NoDates == [pc |-> "none"]
NoStats == [pc |-> "none"]
\* the groups of variables that the specifications of single components leave idle
NoHtml == [pc |-> "none"]
NoBot == [pc |-> "none"]
NoUpdate == [pc |-> "none"]
NoPost == [pc |-> "none"]
NoBackfill == [pc |-> "none"]
IdleComponents ==
  /\ html = NoHtml
  /\ bot = NoBot
  /\ upd = NoUpdate
  /\ wp = NoPost
  /\ backfill = NoBackfill

Init ==
  /\ req = [r \in Slots |-> IdleRequest]
  /\ clicks = <<>>
  /\ wpInUse = 0
  /\ wpPool \in BOOLEAN
  /\ urlCase = NoUrlCase
  /\ urlOut = NoUrlOut
  /\ og = NoOg
  /\ dates = NoDates
  /\ stats = NoStats
  /\ IdleComponents

Next ==
  \/ \E r \in Slots : Receive(r)
  \/ \E r \in Slots : LogClickSettled(r)
  \/ \E r \in Slots : GetConnection(r)
  \/ \E r \in Slots : QueryPost(r)
  \/ \E r \in Slots : QueryThumbnail(r)
  \/ \E r \in Slots : QueryAttachment(r)
  \/ \E r \in Slots : QueryMeta(r)
  \/ \E r \in Slots : HttpGet(r)
  \/ \E r \in Slots : Complete(r)

Spec == Init /\ [][Next]_vars

\* every step of a handler whose awaited call has settled is eventually taken;
\* a getConnection() that can be served again and again is eventually served
\* (the pool hands released connections to its queue in arrival order)
FairSpec ==
  /\ Spec
  /\ \A r \in Slots :
       /\ WF_vars(LogClickSettled(r))
       /\ SF_vars(GetConnection(r))
       /\ WF_vars(QueryPost(r))
       /\ WF_vars(QueryThumbnail(r))
       /\ WF_vars(QueryAttachment(r))
       /\ WF_vars(QueryMeta(r))
       /\ WF_vars(HttpGet(r))
       /\ WF_vars(Complete(r))

(***************************************************************************)
(* The URL builders on their own: one site configuration, one source       *)
(* value and one articleId; the redirect route builds targetUrl, then the  *)
(* stats route builds the article's url.                                   *)
(***************************************************************************)
ExampleCom == <<"e", "x", "a", "m", "p", "l", "e", ".", "c", "o", "m">>

UrlPatterns ==
  { JSUndefined,
    JSString(<<"/", "{", "a", "r", "t", "i", "c", "l", "e", "I", "d", "}", "/">>),
    JSString(<<"/", "b", "l", "o", "g", "/", "{", "a", "r", "t", "i", "c", "l", "e", "I", "d", "}", "/">>),
    JSString(<<"/", "{", "a", "r", "t", "i", "c", "l", "e", "I", "d", "}">>),
    JSString(<<"p", "o", "s", "t", "s", "/", "{", "a", "r", "t", "i", "c", "l", "e", "I", "d", "}", "/">>) }

UrlSiteConfigs ==
  { SiteObject([NoSiteFields EXCEPT !.domain = JSString(ExampleCom),
                                    !.og_method = JSString(HtmlFetch),
                                    !.url_pattern = pat]) : pat \in UrlPatterns }

\* the two shapes of an utm-sources.json value: the query string, and the
\* object the setup wizard writes
UrlSources ==
  { JSString(<<"u", "t", "m", "_", "s", "o", "u", "r", "c", "e", "=", "f", "a", "c", "e", "b", "o", "o", "k", "&", "u", "t", "m", "_", "m", "e", "d", "i", "u", "m", "=", "s", "o", "c", "i", "a", "l">>),
    JSObject(<<"f", "a", "c", "e", "b", "o", "o", "k">>, <<"s", "o", "c", "i", "a", "l">>),
    JSObject(<<"t", "g">>, <<"m", "s", "g">>) }

\* req.params.articleId after Express has percent-decoded it
UrlArticleIds ==
  { <<"a", "b", "c">>, <<"a", "?", "b", "c">>, <<"a", "&", "b", "c">>, <<"a", "#", "b", "c">>,
    <<"a", "/", "b", "c">>, <<"a", " ", "b", "c">>, <<"a", "\"", "b", "c">>, <<"a", "$", "&", "b", "c">> }

InitUrl ==
  /\ req = [r \in Slots |-> IdleRequest]
  /\ clicks = <<>>
  /\ wpInUse = 0
  /\ wpPool = FALSE
  /\ urlCase \in [cfg : UrlSiteConfigs, utm : UrlSources, id : UrlArticleIds]
  /\ urlOut = [NoUrlOut EXCEPT !.pc = "start"]
  /\ og = NoOg
  /\ dates = NoDates
  /\ stats = NoStats
  /\ IdleComponents

RedirectRoute ==
  /\ urlOut.pc = "start"
  /\ urlOut' = [urlOut EXCEPT !.pc = "redirected",
                              !.targetUrl = BuildTargetUrl(urlCase.cfg, urlCase.utm, urlCase.id)]
  /\ UNCHANGED <<req, clicks, wpInUse, wpPool, urlCase, og, dates, stats, html, bot, upd, wp, backfill>>

StatsRoute ==
  /\ urlOut.pc = "redirected"
  /\ urlOut' = [urlOut EXCEPT !.pc = "reported",
                              !.articleUrl = BuildArticleUrl(urlCase.cfg, urlCase.id)]
  /\ UNCHANGED <<req, clicks, wpInUse, wpPool, urlCase, og, dates, stats, html, bot, upd, wp, backfill>>

NextUrl == RedirectRoute \/ StatsRoute

SpecUrl == InitUrl /\ [][NextUrl]_vars

(***************************************************************************)
(* Properties of the redirect pipeline.                                    *)
(***************************************************************************)
\* the request passed both lookups of the handler
Resolved(rq) == Truthy(SourceLookup(rq.source)) /\ Truthy(SiteLookup(rq.site))

Holding(rq) == rq.pc \in {"queryPost", "queryThumbnail", "queryAttachment", "queryMeta"}

\* C1: every answered resolved request got the response its classification
\* and its metadata outcome determine: a human a 302 to the built URL, a bot
\* with metadata the 200 preview, a bot without metadata (not found, timeout,
\* upstream failure) a 302 to https://<domain>, and never an error page.
C1_ResponseByClassification ==
  \A r \in Slots :
    (req[r].pc = "done" /\ Resolved(req[r])) =>
      LET rq == req[r]
          resp == req[r].response
      IN /\ resp.status \in {200, 302}
         /\ ~rq.isBot =>
              (resp.status = 302 /\ resp.location = TargetUrlOf(rq) /\ rq.ogData = "none")
         /\ (rq.isBot /\ rq.ogData = "metadata") =>
              (resp.status = 200 /\ resp.body = "og-html" /\ resp.ogUrl = TargetUrlOf(rq))
         /\ (rq.isBot /\ rq.ogData # "metadata") =>
              (/\ rq.ogData = "null"
               /\ resp.status = 302
               /\ resp.location = Https \o ToStringJS(SiteLookup(rq.site).domain))

\* a bot of the WordPress site answered after its fetch failed with a query error
C1_Witness ==
  \E r \in Slots :
    /\ req[r].pc = "done" /\ req[r].isBot /\ req[r].site = "blog"
    /\ req[r].ogData = "null" /\ wpInUse > 0
    /\ req[r].response.status = 302
    /\ req[r].response.location = Https \o <<"b", ".", "i", "o">>

\* C2: a request whose source id is not in the source map is answered 404
\* 'Unknown source', one whose source is in the map and whose site id is not
\* is answered 404 'Unknown site'; neither logs, fetches, redirects or previews.
C2_UnknownIdsAnswered404 ==
  \A r \in Slots :
    req[r].pc # "idle" =>
      /\ req[r].source \notin DOMAIN utmSources =>
           /\ req[r].pc = "done" /\ req[r].inserts = 0 /\ req[r].ogData = "none"
           /\ req[r].response.status = 404 /\ req[r].response.body = "Unknown source"
      /\ (req[r].source \in DOMAIN utmSources /\ req[r].site \notin DOMAIN sites) =>
           /\ req[r].pc = "done" /\ req[r].inserts = 0 /\ req[r].ogData = "none"
           /\ req[r].response.status = 404 /\ req[r].response.body = "Unknown site"

\* the classifier's verdict on each user agent of the model
Verdict == [ua \in UserAgents |-> detectBot(ua)]

C4_ResponseIndependentOfInsert ==
  /\ \A r1, r2 \in Slots :
       (/\ req[r1].pc = "done" /\ req[r2].pc = "done"
        /\ req[r1].source = req[r2].source /\ req[r1].site = req[r2].site
        /\ req[r1].articleId = req[r2].articleId /\ req[r1].userAgent = req[r2].userAgent
        /\ req[r1].ogData = req[r2].ogData)
       => req[r1].response = req[r2].response
  /\ \A r \in Slots :
       (req[r].pc = "done" /\ req[r].inserts > 0 /\ ~req[r].insertOk)
       => req[r].response.status \in {200, 302}

\* the same bot request answered twice with a preview, once with its row
\* stored and once with the insert failed
C4_Witness ==
  \E r1, r2 \in Slots :
    /\ req[r1].pc = "done" /\ req[r2].pc = "done"
    /\ req[r1].source = req[r2].source /\ req[r1].site = req[r2].site
    /\ req[r1].userAgent = req[r2].userAgent
    /\ req[r1].isBot /\ req[r1].ogData = "metadata" /\ req[r2].ogData = "metadata"
    /\ req[r1].insertOk /\ ~req[r2].insertOk

\* C5: the connections checked out of wpPool are exactly those held by the
\* fetches currently between getConnection and their return: every finished
\* fetch (found, not found, query failed) has given its connection back.
C5_ConnectionsReleased ==
  wpInUse = Cardinality({r \in Slots : Holding(req[r])})

\* C6: a fetch that finds every connection of wpPool checked out ends (with
\* a failure outcome and the bare-domain 302): its request is answered.
\* (Checked under FairSpec.  The pool has no acquire timeout and an unbounded
\* queue, so a pending getConnection() ends only when a connection comes back.)
C6_ExhaustedPoolFetchFails ==
  \A r \in Slots :
    (req[r].pc = "getConnection" /\ wpInUse = connectionLimit) ~> (req[r].pc = "done")

\* C7: a request is never kept waiting by fetches that are over: whenever it
\* waits for a connection of the full pool, some other request is inside its
\* own fetch and holds one.
C7_NotBlockedByEarlierFetch ==
  \A r \in Slots :
    (req[r].pc = "getConnection" /\ wpInUse = connectionLimit) =>
      \E q \in Slots \ {r} : Holding(req[q])

(***************************************************************************)
(* Properties of the URL builders.                                         *)
(***************************************************************************)
UtmSourceKey == <<"u", "t", "m", "_", "s", "o", "u", "r", "c", "e", "=">>
UtmMediumKey == <<"&", "u", "t", "m", "_", "m", "e", "d", "i", "u", "m", "=">>

\* encodeURIComponent on the characters of the model
PercentCodes ==
  "?" :> <<"%", "3", "F">> @@ "&" :> <<"%", "2", "6">> @@ "#" :> <<"%", "2", "3">>
  @@ "/" :> <<"%", "2", "F">> @@ " " :> <<"%", "2", "0">> @@ "\"" :> <<"%", "2", "2">>
  @@ "$" :> <<"%", "2", "4">> @@ "{" :> <<"%", "7", "B">> @@ "}" :> <<"%", "7", "D">>
  @@ "=" :> <<"%", "3", "D">> @@ ":" :> <<"%", "3", "A">> @@ "%" :> <<"%", "2", "5">>

RECURSIVE PercentEncode(_)
PercentEncode(str) ==
  IF str = <<>> THEN <<>>
  ELSE (IF Head(str) \in DOMAIN PercentCodes THEN PercentCodes[Head(str)] ELSE <<Head(str)>>)
       \o PercentEncode(Tail(str))

\* the pattern with its first placeholder replaced by token, taken literally
Substituted(pattern, token) ==
  LET i == IndexOf(pattern, Placeholder)
  IN IF i = 0 THEN pattern
     ELSE SubSeq(pattern, 1, i - 1) \o token \o SubSeq(pattern, i + Len(Placeholder), Len(pattern))

PatternOf(cfg) == IF Truthy(cfg.url_pattern) THEN cfg.url_pattern.s ELSE DefaultPattern

\* the part of a URL before its query string
WithoutQuery(url) ==
  LET i == IndexOf(url, <<"?">>) IN IF i = 0 THEN url ELSE SubSeq(url, 1, i - 1)

\* C8: for the default pattern, the source {utm_source: facebook, utm_medium:
\* social} and articleId abc the redirect URL is
\* https://example.com/abc/?utm_source=facebook&utm_medium=social&utm_campaign=abc,
\* and for every source given as a UTM attribute set the query string is
\* utm_source=<source>&utm_medium=<medium>&utm_campaign=<articleId> after the
\* pattern-substituted path.
C8_UtmQueryString ==
  (urlOut.pc # "start" /\ urlCase.utm.k = "object") =>
    /\ urlOut.targetUrl =
         Https \o ToStringJS(urlCase.cfg.domain) \o RedirectUrlPath(urlCase.cfg, urlCase.id)
         \o <<"?">> \o UtmSourceKey \o urlCase.utm.utm_source
         \o UtmMediumKey \o urlCase.utm.utm_medium \o UtmCampaign \o urlCase.id
    /\ (/\ PatternOf(urlCase.cfg) = DefaultPattern
        /\ urlCase.utm = JSObject(<<"f", "a", "c", "e", "b", "o", "o", "k">>, <<"s", "o", "c", "i", "a", "l">>)
        /\ urlCase.id = <<"a", "b", "c">>)
       => urlOut.targetUrl = <<"h", "t", "t", "p", "s", ":", "/", "/", "e", "x", "a", "m", "p", "l", "e", ".", "c", "o", "m", "/", "a", "b", "c", "/", "?", "u", "t", "m", "_", "s", "o", "u", "r", "c", "e", "=", "f", "a", "c", "e", "b", "o", "o", "k", "&", "u", "t", "m", "_", "m", "e", "d", "i", "u", "m", "=", "s", "o", "c", "i", "a", "l", "&", "u", "t", "m", "_", "c", "a", "m", "p", "a", "i", "g", "n", "=", "a", "b", "c">>

\* C9: the articleId enters the redirect URL percent-encoded, in the path and
\* as the utm_campaign value, and nothing else is changed.
C9_ArticleIdPercentEncoded ==
  urlOut.pc # "start" =>
    urlOut.targetUrl =
      Https \o ToStringJS(urlCase.cfg.domain)
      \o Substituted(PatternOf(urlCase.cfg), PercentEncode(urlCase.id))
      \o <<"?">> \o ToStringJS(urlCase.utm) \o UtmCampaign \o PercentEncode(urlCase.id)

\* C10: the article URL of the stats report equals the redirect target
\* without its query string, for every url_pattern and every articleId.
C10_ArticleUrlEqualsRedirectTarget ==
  urlOut.pc = "reported" => urlOut.articleUrl = WithoutQuery(urlOut.targetUrl)

(***************************************************************************)
(* fetchOGData, the strategy router, called on its own with every shape of *)
(* site configuration.                                                     *)
(***************************************************************************)
OgMethods ==
  {JSUndefined, JSString(<<>>), JSString(WordpressDb), JSString(HtmlFetch),
   JSString(ApiMethod),
   JSString(<<"w", "o", "r", "d", "p", "r", "e", "s", "_", "d", "b">>),
   JSString(<<"W", "O", "R", "D", "P", "R", "E", "S", "S", "_", "D", "B">>)}

OgSiteConfigs ==
  {SiteObject([NoSiteFields EXCEPT !.domain = JSString(<<"b", ".", "i", "o">>),
                                   !.og_method = m, !.wp_db = w, !.db = d]) :
     m \in OgMethods,
     w \in {JSUndefined, JSString(<<"w", "p">>)},
     d \in {JSUndefined, JSString(<<"o", "l", "d">>)}}

\* the branch the switch(method) of fetchOGData takes
SwitchMethod(cfg) ==
  LET method == JSOr(cfg.og_method, JSString(WordpressDb)).s
  IN CASE method = WordpressDb -> "fetchOGFromWordPress"
       [] method = HtmlFetch -> "fetchOGFromHTML"
       [] method = ApiMethod -> "throw"
       [] OTHER -> "default"

InitOg ==
  /\ req = [r \in Slots |-> IdleRequest]
  /\ clicks = <<>>
  /\ wpInUse = 0
  /\ wpPool \in BOOLEAN
  /\ urlCase = NoUrlCase
  /\ urlOut = NoUrlOut
  /\ og \in [pc : {"start"}, cfg : OgSiteConfigs, found : BOOLEAN,
             branch : {"none"}, value : {"pending"}]
  /\ dates = NoDates
  /\ stats = NoStats
  /\ IdleComponents

\* fetchOGData up to the first await: the switch, and the two branches that
\* return without a fetcher (the throw of 'api' is caught by the function's
\* own catch, which returns null)
FetchOGDataCall ==
  /\ og.pc = "start"
  /\ LET branch == SwitchMethod(og.cfg)
         start == FetchOGDataStart(og.cfg, wpPool)
     IN og' = [og EXCEPT !.branch = branch,
                         !.pc = IF start = "null" THEN "returned" ELSE "fetching",
                         !.value = IF start = "null" THEN "null" ELSE "pending"]
  /\ UNCHANGED <<req, clicks, wpInUse, wpPool, urlCase, urlOut, dates, stats, html, bot, upd, wp, backfill>>

\* the fetcher settles: the metadata of the article, or null when the article
\* is not found (a fetcher that throws ends in the catch, null again)
FetchOGDataReturn ==
  /\ og.pc = "fetching"
  /\ og' = [og EXCEPT !.pc = "returned",
                      !.value = IF og.found THEN "metadata" ELSE "null"]
  /\ UNCHANGED <<req, clicks, wpInUse, wpPool, urlCase, urlOut, dates, stats, html, bot, upd, wp, backfill>>

NextOg == FetchOGDataCall \/ FetchOGDataReturn

SpecOg == InitOg /\ [][NextOg]_vars

\* the strategy a configuration names: its og_method, or content-store for a
\* legacy configuration that has no og_method but a bare store identifier
Strategy(cfg) ==
  IF cfg.og_method.k = "string" /\ cfg.og_method.s \in {WordpressDb, HtmlFetch}
    THEN cfg.og_method.s
  ELSE IF cfg.og_method.k = "undefined" /\ Truthy(JSOr(cfg.wp_db, cfg.db))
    THEN WordpressDb
  ELSE <<>>

\* C11: the router dispatches on the strategy only: content-store and
\* html-scrape reach their fetcher, a legacy configuration with just a store
\* identifier means content-store, and every other value returns an
\* unsupported-strategy outcome that differs from the null of NotFound and
\* reaches no fetcher.
C11_UnsupportedStrategyExplicit ==
  og.pc = "returned" =>
    CASE Strategy(og.cfg) = WordpressDb -> og.branch = "fetchOGFromWordPress"
      [] Strategy(og.cfg) = HtmlFetch -> og.branch = "fetchOGFromHTML"
      [] OTHER -> /\ og.branch \notin {"fetchOGFromWordPress", "fetchOGFromHTML"}
                  /\ og.value \notin {"null", "metadata"}

(***************************************************************************)
(* GET /api/stats: the authenticate middleware, then the handler and its   *)
(* queries on the clicks table.                                            *)
(***************************************************************************)
Bearer == <<"B", "e", "a", "r", "e", "r", " ">>
BearerLength == 7
\* process.env.API_TOKEN
API_TOKEN == <<"s", "E", "c">>

\* req.headers.authorization: absent, empty, the secret, a prefix of it, the
\* secret extended, a case variant, and other schemes
AuthHeaders ==
  {JSUndefined, JSString(<<>>),
   JSString(<<"B", "e", "a", "r", "e", "r", " ", "s", "E", "c">>),
   JSString(<<"B", "e", "a", "r", "e", "r", " ", "s", "E">>),
   JSString(<<"B", "e", "a", "r", "e", "r", " ", "s", "E", "c", "x">>),
   JSString(<<"B", "e", "a", "r", "e", "r", " ", "S", "E", "C">>),
   JSString(<<"b", "e", "a", "r", "e", "r", " ", "s", "E", "c">>),
   JSString(<<"B", "e", "a", "r", "e", "r", "s", "E", "c">>),
   JSString(<<"B", "a", "s", "i", "c", " ", "s", "E", "c">>),
   JSString(<<"s", "E", "c">>)}

\* s.substring(from)
Substring(s, from) == SubSeq(s, from + 1, Len(s))

TokenMatchesPrefix(token, secret) == StartsWith(token, secret)

\* the negation of token !== process.env.API_TOKEN
TokenMatches(token, secret) == token = secret

\* authenticate: the status it answers with, or 0 when it calls next()
authenticate(authHeader) ==
  IF ~Truthy(authHeader) \/ ~StartsWith(authHeader.s, Bearer) THEN 401
  ELSE IF ~TokenMatches(Substring(authHeader.s, BearerLength), API_TOKEN) THEN 403
  ELSE 0

\* parseInt on a string without sign or leading white space: the value of
\* the leading run of decimal digits, NaN when there is none
DecimalDigits == <<"0", "1", "2", "3", "4", "5", "6", "7", "8", "9">>
IsDigit(c) == \E i \in DOMAIN DecimalDigits : DecimalDigits[i] = c
DigitValue(c) == (CHOOSE i \in DOMAIN DecimalDigits : DecimalDigits[i] = c) - 1
AllDigits(s) == s # <<>> /\ \A i \in DOMAIN s : IsDigit(s[i])

RECURSIVE ParseDigits(_, _)
ParseDigits(s, acc) ==
  IF s = <<>> \/ ~IsDigit(Head(s)) THEN acc
  ELSE ParseDigits(Tail(s), acc * 10 + DigitValue(Head(s)))

ParseIntIsNaN(s) == s = <<>> \/ ~IsDigit(Head(s))
ParseInt(s) == ParseDigits(s, 0)

\* the values of articlesLimit and countriesLimit: null or a number
JSNull == [k |-> "null", n |-> 0]
JSNumber(n) == [k |-> "number", n |-> n]
TruthyLimit(l) == l.k = "number" /\ l.n # 0

DefaultArticlesLimit == 5
DefaultCountriesLimit == 5
All == <<"a", "l", "l">>

\* let articlesLimit = 5; if (limit === 'all') ... else if (limit && !isNaN(parseInt(limit))) ...
ArticlesLimit(limit) ==
  IF limit.k = "string" /\ limit.s = All THEN JSNull
  ELSE IF Truthy(limit) /\ ~ParseIntIsNaN(limit.s) THEN JSNumber(ParseInt(limit.s))
  ELSE JSNumber(DefaultArticlesLimit)

\* let countriesLimit = 5; if (countries_limit === '0') ... 'all' ... parseInt
CountriesLimit(countries_limit) ==
  IF countries_limit.k = "string" /\ countries_limit.s = <<"0">> THEN JSNumber(0)
  ELSE IF countries_limit.k = "string" /\ countries_limit.s = All THEN JSNull
  ELSE IF Truthy(countries_limit) /\ ~ParseIntIsNaN(countries_limit.s)
    THEN JSNumber(ParseInt(countries_limit.s))
  ELSE JSNumber(DefaultCountriesLimit)

\* the columns of the clicks table the report reads; country NULL is NullCountry
BlogSite == "blog"
ClickSources == <<"fb", "tg">>
ClickArticles == <<"a", "b">>
ClickCountries == <<"UA", "US">>
NullCountry == "NULL"

\* dateRange.start and dateRange.end of the request, in seconds
WindowStart == 2
WindowEnd == 3
DateRange == [start |-> WindowStart, end |-> WindowEnd]

SeqRange(s) == {s[i] : i \in DOMAIN s}
Reverse(s) == [i \in DOMAIN s |-> s[Len(s) + 1 - i]]
Min(a, b) == IF a <= b THEN a ELSE b

\* rows that can be in the table: clicks of the site at the start of the
\* window from every source, article and country, previews of every source
\* and article, clicks just before, at the end of and just after the window,
\* and a click of another site
RowDomain ==
  {r \in [site : {BlogSite, "news"}, source : SeqRange(ClickSources),
          article_id : SeqRange(ClickArticles), type : {"click", "preview"},
          country : SeqRange(ClickCountries) \cup {NullCountry},
          created_at : (WindowStart - 1)..(WindowEnd + 1)] :
     \/ r.site = BlogSite /\ r.type = "click" /\ r.created_at = WindowStart
     \/ r.site = BlogSite /\ r.type = "preview" /\ r.country = "US"
        /\ r.created_at = WindowStart
     \/ r.site = BlogSite /\ r.type = "click" /\ r.source = "fb"
        /\ r.article_id = "a" /\ r.country = "US"
     \/ r.site = "news" /\ r.type = "click" /\ r.source = "fb"
        /\ r.article_id = "a" /\ r.country = "US" /\ r.created_at = WindowStart}

MaxRows == 3

RECURSIVE TablesUpTo(_)
TablesUpTo(n) ==
  IF n = 0 THEN {{}}
  ELSE LET smaller == TablesUpTo(n - 1)
       IN smaller \cup {t \cup {r} : t \in smaller, r \in RowDomain}

CreatedAtBeforeEnd(t, start, end) == t >= start /\ t < end

\* created_at >= ? AND created_at <= ?
CreatedAtInRange(t, start, end) == t >= start /\ t <= end

\* WHERE site = ? AND created_at >= ? AND created_at <= ?   (baseParams)
BaseWhere(rows, site, range) ==
  {r \in rows : r.site = site /\ CreatedAtInRange(r.created_at, range.start, range.end)}

\* ... AND type = '<type>' ${sourceFilter ? 'AND source = ?' : ''}   (paramsWithSource);
\* sourceFilter "" stands for null
TypeWhere(rows, site, range, type, sourceFilter) ==
  {r \in BaseWhere(rows, site, range) :
     r.type = type /\ (sourceFilter = "" \/ r.source = sourceFilter)}

\* GROUP BY <key> with COUNT(*), ORDER BY the count DESC: one group per key
\* that has a matching row, larger counts first. The order among equal
\* counts is left to the server; keyOrder is the order it uses for them.
GroupBy(matching, keyOrder, column) ==
  LET counted == [i \in DOMAIN keyOrder |->
                    [key |-> keyOrder[i],
                     n |-> Cardinality({r \in matching : r[column] = keyOrder[i]}),
                     i |-> i]]
      groups == SelectSeq(counted, LAMBDA g : g.n > 0)
      sorted == SortSeq(groups, LAMBDA x, y : x.n > y.n \/ (x.n = y.n /\ x.i < y.i))
  IN [j \in DOMAIN sorted |-> [key |-> sorted[j].key, n |-> sorted[j].n]]

\* ${limit ? `LIMIT ${limit}` : ''}
Limit(groups, limit) ==
  IF TruthyLimit(limit) THEN SubSeq(groups, 1, Min(limit.n, Len(groups))) ELSE groups

ArticleRowsOfAll(matching, articleId) == matching

\* the rows of articleCountriesData that the forEach files under one article_id
ArticleRowsOf(matching, articleId) == {r \in matching : r.article_id = articleId}

BreakdownWhere(rows, site, range, sourceFilter) ==
  {r \in BaseWhere(rows, site, range) : sourceFilter = "" \/ r.source = sourceFilter}

\* the rows sourcesQuery reads: baseParams only, whatever sourceFilter is
SourcesWhere(rows, site, range, sourceFilter) == BaseWhere(rows, site, range)

NoReport ==
  [total_clicks |-> 0, total_previews |-> 0, articles_count |-> 0,
   top_articles |-> <<>>, top_articles_previews |-> <<>>,
   has_top_countries |-> FALSE, top_countries |-> <<>>, sources |-> <<>>]

\* responseData as the handler assembles it from its queries; order is the
\* direction in which the server lists groups of equal count
ResponseData(rows, query, range, order) ==
  LET articlesLimit == ArticlesLimit(query.limit)
      countriesLimit == CountriesLimit(query.countries_limit)
      sourceFilter == query.source
      withCountries == countriesLimit # JSNumber(0)
      Ordered(keys) == IF order = "asc" THEN keys ELSE Reverse(keys)
      clickRows == TypeWhere(rows, query.site, range, "click", sourceFilter)
      previewRows == TypeWhere(rows, query.site, range, "preview", sourceFilter)
      topArticles ==
        Limit(GroupBy(clickRows, Ordered(ClickArticles), "article_id"),
              articlesLimit)
      topPreviewArticles ==
        Limit(GroupBy(previewRows, Ordered(ClickArticles), "article_id"),
              articlesLimit)
      countryRows == {r \in clickRows : r.country # NullCountry}
      topCountries ==
        Limit(GroupBy(countryRows, Ordered(ClickCountries), "country"),
              countriesLimit)
      articleCountriesData(articleId) ==
        GroupBy(ArticleRowsOf(countryRows, articleId), Ordered(ClickCountries),
                "country")
      articleCountries(articleId) ==
        LET data == articleCountriesData(articleId)
        IN IF countriesLimit = JSNull THEN data
           ELSE SubSeq(data, 1, Min(countriesLimit.n, Len(data)))
      sourceRows == SourcesWhere(rows, query.site, range, sourceFilter)
      sourcesData == GroupBy(sourceRows, Ordered(ClickSources), "source")
  IN [total_clicks |-> Cardinality(clickRows),
      total_previews |-> Cardinality(previewRows),
      articles_count |-> Len(topArticles),
      top_articles |->
        [i \in DOMAIN topArticles |->
           LET id == topArticles[i].key
               listed == withCountries /\ articleCountriesData(id) # <<>>
           IN [article_id |-> id, clicks |-> topArticles[i].n,
               has_top_countries |-> listed,
               top_countries |->
                 IF listed
                   THEN [j \in DOMAIN articleCountries(id) |->
                           [country |-> articleCountries(id)[j].key,
                            clicks |-> articleCountries(id)[j].n]]
                   ELSE <<>>]],
      top_articles_previews |->
        [i \in DOMAIN topPreviewArticles |->
           [article_id |-> topPreviewArticles[i].key,
            previews |-> topPreviewArticles[i].n]],
      has_top_countries |-> withCountries,
      top_countries |->
        IF withCountries
          THEN [i \in DOMAIN topCountries |->
                  [country |-> topCountries[i].key, clicks |-> topCountries[i].n]]
          ELSE <<>>,
      sources |->
        [i \in DOMAIN sourcesData |->
           LET own == {r \in sourceRows : r.source = sourcesData[i].key}
           IN [source |-> sourcesData[i].key,
               clicks |-> Cardinality({r \in own : r.type = "click"}),
               previews |-> Cardinality({r \in own : r.type = "preview"}),
               total |-> sourcesData[i].n]]]

\* as QueriesIssued, but with one country query for each selected article
QueriesIssuedPerArticle(query, report, found) ==
  4 + (IF report.has_top_countries THEN 1 ELSE 0)
    + (IF report.has_top_countries THEN report.articles_count ELSE 0)
    + (IF found THEN 1 ELSE 0)

\* the number of mainPool.query calls behind one report
QueriesIssued(query, report, found) ==
  4 + (IF report.has_top_countries THEN 1 ELSE 0)
    + (IF report.has_top_countries /\ report.articles_count > 0 THEN 1 ELSE 0)
    + (IF found THEN 1 ELSE 0)

\* req.query of the request: every combination of limit, countries_limit and
\* source for the configured site, and the plain request without a site or
\* for a site that is not in sites.json
StatsQueries ==
  {q \in [site : {"", BlogSite, "nosite"},
          limit : {JSUndefined, JSString(<<"0">>), JSString(<<"1">>), JSString(All)},
          countries_limit : {JSUndefined, JSString(<<"0">>), JSString(<<"1">>),
                             JSString(All)},
          source : {"", "fb"}] :
     \/ q.site = BlogSite
     \/ q.limit = JSUndefined /\ q.countries_limit = JSUndefined /\ q.source = ""}

PlainQuery ==
  [site |-> BlogSite, limit |-> JSUndefined, countries_limit |-> JSUndefined,
   source |-> ""]

\* authenticate reads nothing of req.query, so the requests it turns away are
\* taken with the plain query only
InitStats ==
  /\ req = [r \in Slots |-> IdleRequest]
  /\ clicks = <<>>
  /\ wpInUse = 0
  /\ wpPool = FALSE
  /\ urlCase = NoUrlCase
  /\ urlOut = NoUrlOut
  /\ og = NoOg
  /\ dates = NoDates
  /\ \E authorization \in AuthHeaders, rows \in TablesUpTo(MaxRows), query \in StatsQueries :
       /\ authenticate(authorization) # 0 => query = PlainQuery
       /\ stats = [pc |-> "start", authorization |-> authorization, query |-> query,
                   rows |-> rows, status |-> 0, queries |-> 0, report |-> NoReport]
  /\ IdleComponents

Authenticate ==
  /\ stats.pc = "start"
  /\ LET status == authenticate(stats.authorization)
     IN stats' = [stats EXCEPT !.pc = IF status = 0 THEN "handler" ELSE "done",
                               !.status = status]
  /\ UNCHANGED <<req, clicks, wpInUse, wpPool, urlCase, urlOut, og, dates, html, bot, upd, wp, backfill>>

\* the handler from its first line to res.json, every query answered
StatsHandler ==
  /\ stats.pc = "handler"
  /\ IF stats.query.site = ""
       THEN stats' = [stats EXCEPT !.pc = "done", !.status = 400]
       ELSE \E order \in {"asc", "desc"} :
              LET report == ResponseData(stats.rows, stats.query, DateRange, order)
                  found == SiteLookup(stats.query.site).k # "undefined"
              IN stats' = [stats EXCEPT
                             !.pc = "done",
                             !.status = IF found THEN 200 ELSE 404,
                             !.queries = QueriesIssued(stats.query, report, found),
                             !.report = IF found THEN report ELSE NoReport]
  /\ UNCHANGED <<req, clicks, wpInUse, wpPool, urlCase, urlOut, og, dates, html, bot, upd, wp, backfill>>

\* mainPool.query rejects (here the first one): the catch answers 500
StatsQueryFailed ==
  /\ stats.pc = "handler"
  /\ stats.query.site # ""
  /\ stats' = [stats EXCEPT !.pc = "done", !.status = 500, !.queries = 1]
  /\ UNCHANGED <<req, clicks, wpInUse, wpPool, urlCase, urlOut, og, dates, html, bot, upd, wp, backfill>>

NextStats == Authenticate \/ StatsHandler \/ StatsQueryFailed

SpecStats == InitStats /\ [][NextStats]_vars

SecondsPerDay == 86400
SecondsPerHour == 3600

\* days from 1970-01-01 to a civil date, from the era (400 years), the year
\* of the era and the day of the year counted from 1 March
DaysFromEra(era, yoe, doy) ==
  era * 146097 + yoe * 365 + yoe \div 4 - yoe \div 100 + doy - 719468

DaysFromMarch(y, mp, day) ==
  DaysFromEra(y \div 400, y % 400, (153 * mp + 2) \div 5 + day - 1)

\* days from 1970-01-01 to the civil date year-month-day (month 1..12)
DaysFromCivil(year, month, day) ==
  DaysFromMarch(IF month <= 2 THEN year - 1 ELSE year,
                IF month > 2 THEN month - 3 ELSE month + 9, day)

\* the civil date of a day number, by the inverse steps
CivilOf(y, month, day) ==
  [year |-> y + (IF month <= 2 THEN 1 ELSE 0), month |-> month, day |-> day]

CivilFromMarch(y, doy, mp) ==
  CivilOf(y, IF mp < 10 THEN mp + 3 ELSE mp - 9, doy - (153 * mp + 2) \div 5 + 1)

CivilFromDoy(y, doy) == CivilFromMarch(y, doy, (5 * doy + 2) \div 153)

CivilFromYoe(era, doe, yoe) ==
  CivilFromDoy(yoe + era * 400, doe - (365 * yoe + yoe \div 4 - yoe \div 100))

CivilFromEra(era, doe) ==
  CivilFromYoe(era, doe,
               (doe - doe \div 1460 + doe \div 36524 - doe \div 146096) \div 365)

CivilFromDays(days) ==
  CivilFromEra((days + 719468) \div 146097, (days + 719468) % 146097)

FieldsOf(civil, secs) ==
  [year |-> civil.year, month |-> civil.month, day |-> civil.day,
   hours |-> secs \div SecondsPerHour,
   minutes |-> (secs % SecondsPerHour) \div 60,
   seconds |-> secs % 60]

\* the calendar fields of a time value taken as UTC
UTCFields(t) == FieldsOf(CivilFromDays(t \div SecondsPerDay), t % SecondsPerDay)

\* Date.UTC on fields, month counted from 0 and, like the day, free to run
\* outside its range (day 0 is the last day of the month before)
MakeTime(year, month0, day, hours, minutes, seconds) ==
  (DaysFromCivil(year + month0 \div 12, (month0 % 12) + 1, 1) + day - 1) * SecondsPerDay
    + hours * SecondsPerHour + minutes * 60 + seconds

\* new Date(year, month, day, hours, minutes, seconds): local time, and a
\* year from 0 to 99 means 1900 + year
NewDate(year, month0, day, hours, minutes, seconds, tz) ==
  MakeTime(IF year >= 0 /\ year <= 99 THEN 1900 + year ELSE year,
           month0, day, hours, minutes, seconds) - tz

LocalOf(f, shifted) ==
  [year |-> f.year, month0 |-> f.month - 1, date |-> f.day,
   day |-> (shifted \div SecondsPerDay + 4) % 7,
   hours |-> f.hours, minutes |-> f.minutes, seconds |-> f.seconds]

\* getFullYear, getMonth, getDate, getDay, getHours, getMinutes, getSeconds
LocalFields(t, tz) == LocalOf(UTCFields(t + tz), t + tz)

WithDate(f, n, tz) == MakeTime(f.year, f.month0, n, f.hours, f.minutes, f.seconds) - tz

\* date.setDate(n)
SetDate(t, n, tz) == WithDate(LocalFields(t, tz), n, tz)

\* date.setDate(date.getDate() + n)
AddDays(t, n, tz) == WithDate(LocalFields(t, tz), LocalFields(t, tz).date + n, tz)

WithHours(f, hours, minutes, seconds, tz) ==
  MakeTime(f.year, f.month0, f.date, hours, minutes, seconds) - tz

\* date.setHours(hours, minutes, seconds)
SetHours(t, hours, minutes, seconds, tz) ==
  WithHours(LocalFields(t, tz), hours, minutes, seconds, tz)

\* formatDateTime: toISOString().slice(0, 19).replace('T', ' '), the string
\* 'YYYY-MM-DD HH:MM:SS' of the UTC fields, kept as the fields it prints
formatDateTime(t) == UTCFields(t)

\* the literals getDateRange compares the period with
DayToken == <<"d", "a", "y">>
WeekToken == <<"w", "e", "e", "k">>
MonthToken == <<"m", "o", "n", "t", "h">>
QuarterToken == <<"q", "u", "a", "r", "t", "e", "r">>
YesterdayToken == <<"y", "e", "s", "t", "e", "r", "d", "a", "y">>
LastWeekToken == <<"l", "a", "s", "t", "_", "w", "e", "e", "k">>
LastWeekNToken == <<"l", "a", "s", "t", "_", "w", "e", "e", "k", "_">>
LastMonthToken == <<"l", "a", "s", "t", "_", "m", "o", "n", "t", "h">>
LastMonthNToken == <<"l", "a", "s", "t", "_", "m", "o", "n", "t", "h", "_">>
MonthOfToken == <<"m", "o", "n", "t", "h", "_">>
QuarterOfToken == <<"q", "u", "a", "r", "t", "e", "r", "_">>
YearToDateToken == <<"y", "e", "a", "r", "_", "t", "o", "_", "d", "a", "t", "e">>
AllTimeToken == <<"a", "l", "l", "_", "t", "i", "m", "e">>
YearOfToken == <<"y", "e", "a", "r", "_">>

\* period.match(/^<prefix>(\d+)$/)
MatchNumber(period, prefix) ==
  StartsWith(period, prefix) /\ AllDigits(Substring(period, Len(prefix)))

\* match[1] of it
MatchedNumber(period, prefix) == ParseInt(Substring(period, Len(prefix)))

\* period.match(/^<prefix>(\d+)_(\d+)$/)
MatchTwoNumbers(period, prefix) ==
  /\ StartsWith(period, prefix)
  /\ LET rest == Substring(period, Len(prefix))
         i == IndexOf(rest, <<"_">>)
     IN /\ i > 0
        /\ AllDigits(SubSeq(rest, 1, i - 1))
        /\ AllDigits(Substring(rest, i))

\* match[1] and match[2] of it
MatchedFirst(period, prefix) == ParseInt(Substring(period, Len(prefix)))
MatchedSecond(period, prefix) ==
  LET rest == Substring(period, Len(prefix))
  IN ParseInt(Substring(rest, IndexOf(rest, <<"_">>)))

\* new Date(string) for the strings used as start_date and end_date: an ISO
\* date is midnight UTC, anything that is no date is an Invalid Date (NaN)
IsoDate == <<"2", "0", "2", "6", "-", "0", "1", "-", "0", "5">>
LaterIsoDate == <<"2", "0", "2", "6", "-", "0", "1", "-", "1", "2">>
NoDate == <<"s", "o", "o", "n">>
DateParseIsNaN(s) == s \notin {IsoDate, LaterIsoDate}
DateParse(s) ==
  IF s = IsoDate THEN MakeTime(2026, 0, 5, 0, 0, 0)
  ELSE MakeTime(2026, 0, 12, 0, 0, 0)

RollingRangeFromMidnight(now, days) ==
  [start |-> (now \div SecondsPerDay) * SecondsPerDay - days * SecondsPerDay,
   end |-> now]

\* start = new Date(now.getTime() - days * 24 * 60 * 60 * 1000); end = now
RollingRange(now, days) == [start |-> now - days * SecondsPerDay, end |-> now]

NullRange == [null |-> TRUE, start |-> UTCFields(0), end |-> UTCFields(0)]
Formatted(range) ==
  [null |-> FALSE, start |-> formatDateTime(range.start), end |-> formatDateTime(range.end)]

\* new Date(d.getFullYear(), d.getMonth(), d.getDate(), hours, minutes, seconds)
AtTimeOfDay(d, hours, minutes, seconds, tz) ==
  NewDate(d.year, d.month0, d.date, hours, minutes, seconds, tz)

\* the 'yesterday' branch, yesterday being the local fields of now less a day
YesterdayRange(yesterday, tz) ==
  Formatted([start |-> AtTimeOfDay(yesterday, 0, 0, 0, tz),
             end |-> AtTimeOfDay(yesterday, 23, 59, 59, tz)])

\* lastMonday.setDate(getDate() - getDay() + (getDay() === 0 ? -6 : 1))
MondayOf(local, tz) ==
  WithDate(local, local.date - local.day + (IF local.day = 0 THEN -6 ELSE 1), tz)

\* match ? parseInt(match[1]) + 1 : 1
Back(p, pattern) == IF MatchNumber(p, pattern) THEN MatchedNumber(p, pattern) + 1 ELSE 1

\* end = new Date(start); end.setDate(end.getDate() + 6); end.setHours(23, 59, 59)
WeekFrom(start, tz) ==
  Formatted([start |-> start, end |-> SetHours(AddDays(start, 6, tz), 23, 59, 59, tz)])

\* the 'last_week' branch
LastWeekRange(p, now, tz) ==
  WeekFrom(AtTimeOfDay(LocalFields(AddDays(MondayOf(LocalFields(now, tz), tz),
                                           -7 * Back(p, LastWeekNToken), tz),
                                   tz),
                       0, 0, 0, tz),
           tz)

\* start and end of the month of lastMonth
WholeMonth(lastMonth, tz) ==
  Formatted([start |-> NewDate(lastMonth.year, lastMonth.month0, 1, 0, 0, 0, tz),
             end |-> NewDate(lastMonth.year, lastMonth.month0 + 1, 0, 23, 59, 59, tz)])

\* the 'last_month' branch
LastMonthRange(p, local, tz) ==
  WholeMonth(LocalFields(NewDate(local.year, local.month0 - Back(p, LastMonthNToken),
                                 1, 0, 0, 0, tz),
                         tz),
             tz)

\* the 'month_' branch after the match: month is match[1] - 1
MonthRange(month, year, tz) ==
  IF month < 0 \/ month > 11 THEN NullRange
  ELSE Formatted([start |-> NewDate(year, month, 1, 0, 0, 0, tz),
                  end |-> NewDate(year, month + 1, 0, 23, 59, 59, tz)])

\* the 'quarter_' branch after the match
QuarterRange(quarter, year, tz) ==
  IF quarter < 1 \/ quarter > 4 THEN NullRange
  ELSE Formatted([start |-> NewDate(year, (quarter - 1) * 3, 1, 0, 0, 0, tz),
                  end |-> NewDate(year, (quarter - 1) * 3 + 3, 0, 23, 59, 59, tz)])

\* the 'year_' branch after the match
YearRange(year, tz) ==
  Formatted([start |-> NewDate(year, 0, 1, 0, 0, 0, tz),
             end |-> NewDate(year, 11, 31, 23, 59, 59, tz)])

\* the branches of if (period) { ... }
PeriodRange(p, now, tz) ==
  IF p = DayToken THEN Formatted(RollingRange(now, 1))
  ELSE IF p = WeekToken THEN Formatted(RollingRange(now, 7))
  ELSE IF p = MonthToken THEN Formatted(RollingRange(now, 30))
  ELSE IF p = QuarterToken THEN Formatted(RollingRange(now, 90))
  ELSE IF p = YesterdayToken THEN YesterdayRange(LocalFields(AddDays(now, -1, tz), tz), tz)
  ELSE IF StartsWith(p, LastWeekToken) THEN LastWeekRange(p, now, tz)
  ELSE IF StartsWith(p, LastMonthToken) THEN LastMonthRange(p, LocalFields(now, tz), tz)
  ELSE IF StartsWith(p, MonthOfToken) THEN
    IF ~MatchTwoNumbers(p, MonthOfToken) THEN NullRange
    ELSE MonthRange(MatchedFirst(p, MonthOfToken) - 1, MatchedSecond(p, MonthOfToken), tz)
  ELSE IF StartsWith(p, QuarterOfToken) THEN
    IF ~MatchTwoNumbers(p, QuarterOfToken) THEN NullRange
    ELSE QuarterRange(MatchedFirst(p, QuarterOfToken), MatchedSecond(p, QuarterOfToken), tz)
  ELSE IF p = YearToDateToken THEN Formatted(RollingRange(now, 365))
  ELSE IF p = AllTimeToken THEN
    Formatted([start |-> NewDate(2000, 0, 1, 0, 0, 0, tz), end |-> now])
  ELSE IF StartsWith(p, YearOfToken) THEN
    IF ~MatchNumber(p, YearOfToken) THEN NullRange
    ELSE YearRange(MatchedNumber(p, YearOfToken), tz)
  ELSE NullRange

\* getDateRange(period, startDate, endDate) called at time now in zone tz;
\* period, startDate and endDate are strings of req.query or undefined
getDateRange(period, startDate, endDate, now, tz) ==
  IF Truthy(period) THEN PeriodRange(period.s, now, tz)
  ELSE IF Truthy(startDate) /\ Truthy(endDate) THEN
    IF DateParseIsNaN(startDate.s) \/ DateParseIsNaN(endDate.s) THEN NullRange
    ELSE Formatted([start |-> DateParse(startDate.s), end |-> DateParse(endDate.s)])
  ELSE NullRange

\* req.query.period: the tokens of every kind, with numbers inside and outside
\* their ranges, and strings that are no token
Periods ==
  {JSString(<<"d", "a", "y">>),
   JSString(<<"w", "e", "e", "k">>),
   JSString(<<"m", "o", "n", "t", "h">>),
   JSString(<<"q", "u", "a", "r", "t", "e", "r">>),
   JSString(<<"y", "e", "a", "r", "_", "t", "o", "_", "d", "a", "t", "e">>),
   JSString(<<"y", "e", "s", "t", "e", "r", "d", "a", "y">>),
   JSString(<<"a", "l", "l", "_", "t", "i", "m", "e">>),
   JSString(<<"l", "a", "s", "t", "_", "w", "e", "e", "k">>),
   JSString(<<"l", "a", "s", "t", "_", "w", "e", "e", "k", "_", "1">>),
   JSString(<<"l", "a", "s", "t", "_", "w", "e", "e", "k", "_", "2">>),
   JSString(<<"l", "a", "s", "t", "_", "m", "o", "n", "t", "h">>),
   JSString(<<"l", "a", "s", "t", "_", "m", "o", "n", "t", "h", "_", "1">>),
   JSString(<<"l", "a", "s", "t", "_", "m", "o", "n", "t", "h", "_", "3">>),
   JSString(<<"m", "o", "n", "t", "h", "_", "1", "_", "2", "0", "2", "6">>),
   JSString(<<"m", "o", "n", "t", "h", "_", "2", "_", "2", "0", "2", "4">>),
   JSString(<<"m", "o", "n", "t", "h", "_", "2", "_", "2", "0", "2", "5">>),
   JSString(<<"m", "o", "n", "t", "h", "_", "1", "2", "_", "2", "0", "2", "5">>),
   JSString(<<"m", "o", "n", "t", "h", "_", "0", "_", "2", "0", "2", "6">>),
   JSString(<<"m", "o", "n", "t", "h", "_", "1", "3", "_", "2", "0", "2", "6">>),
   JSString(<<"q", "u", "a", "r", "t", "e", "r", "_", "1", "_", "2", "0", "2", "6">>),
   JSString(<<"q", "u", "a", "r", "t", "e", "r", "_", "4", "_", "2", "0", "2", "5">>),
   JSString(<<"q", "u", "a", "r", "t", "e", "r", "_", "5", "_", "2", "0", "2", "6">>),
   JSString(<<"y", "e", "a", "r", "_", "2", "0", "2", "6">>),
   JSString(<<"y", "e", "a", "r", "_", "2", "0", "2", "4">>),
   JSString(<<"y", "e", "a", "r", "_", "9", "9">>),
   JSString(<<"l", "a", "s", "t", "_", "w", "e", "e", "k", "e", "n", "d">>),
   JSString(<<"l", "a", "s", "t", "_", "w", "e", "e", "k", "_", "x">>),
   JSString(<<"l", "a", "s", "t", "_", "m", "o", "n", "t", "h", "l", "y">>),
   JSString(<<"m", "o", "n", "t", "h", "_", "x", "_", "2", "0", "2", "6">>),
   JSString(<<"m", "o", "n", "t", "h", "_", "1", "_", "2", "0", "2", "6", "_", "1">>),
   JSString(<<"y", "e", "a", "r", "_">>),
   JSString(<<"h", "o", "u", "r">>),
   JSString(<<"D", "a", "y">>),
   JSString(<<"w", "e", "e", "k", "_", "1">>)}

\* req.query.start_date and req.query.end_date
DateStrings == {JSUndefined, JSString(IsoDate), JSString(LaterIsoDate), JSString(NoDate)}

\* a period alone, or no period and any start_date and end_date
DateQueries ==
  {q \in [period : Periods \cup {JSUndefined}, start_date : DateStrings,
          end_date : DateStrings] :
     Truthy(q.period) => q.start_date = JSUndefined /\ q.end_date = JSUndefined}

\* the offset of the process's time zone: UTC, two hours east, five hours west
TimeZones == {0, 2 * SecondsPerHour, -5 * SecondsPerHour}

\* the clock when getDateRange is called: a Wednesday noon, the last and the
\* first half-hour of a Sunday that ends a month's first day, the first
\* half-hour of a year, a Monday morning
Clock ==
  {MakeTime(2026, 2, 4, 12, 0, 0), MakeTime(2026, 2, 1, 23, 30, 0),
   MakeTime(2026, 2, 2, 0, 30, 0), MakeTime(2026, 0, 1, 0, 30, 0),
   MakeTime(2026, 0, 5, 9, 0, 0)}

MaxCalls == 2

InitDates ==
  /\ req = [r \in Slots |-> IdleRequest]
  /\ clicks = <<>>
  /\ wpInUse = 0
  /\ wpPool = FALSE
  /\ urlCase = NoUrlCase
  /\ urlOut = NoUrlOut
  /\ og = NoOg
  /\ stats = NoStats
  /\ dates \in [pc : {"request"}, tz : TimeZones, now : Clock, query : DateQueries,
                calls : {0}, status : {0}, result : {NullRange},
                prevNow : {0}, prev : {NullRange}]
  /\ IdleComponents

\* const dateRange = getDateRange(period, start_date, end_date);
\* if (!dateRange) return res.status(400)...
ResolveDateRange ==
  /\ dates.pc = "request"
  /\ LET dateRange == getDateRange(dates.query.period, dates.query.start_date,
                                   dates.query.end_date, dates.now, dates.tz)
     IN dates' = [dates EXCEPT !.pc = "resolved",
                               !.calls = @ + 1,
                               !.result = dateRange,
                               !.status = IF dateRange.null THEN 400 ELSE 0]
  /\ UNCHANGED <<req, clicks, wpInUse, wpPool, urlCase, urlOut, og, stats, html, bot, upd, wp, backfill>>

\* the same query arrives again, at the same or at a later time
NextRequest ==
  /\ dates.pc = "resolved"
  /\ dates.calls < MaxCalls
  /\ \E t \in Clock :
       /\ t >= dates.now
       /\ dates' = [dates EXCEPT !.pc = "request", !.now = t,
                                 !.prevNow = dates.now, !.prev = dates.result]
  /\ UNCHANGED <<req, clicks, wpInUse, wpPool, urlCase, urlOut, og, stats, html, bot, upd, wp, backfill>>

NextDates == ResolveDateRange \/ NextRequest

SpecDates == InitDates /\ [][NextDates]_vars

\* the documented period tokens
Documented(p) ==
  \/ p \in {DayToken, WeekToken, MonthToken, QuarterToken, YearToDateToken,
            YesterdayToken, AllTimeToken, LastWeekToken, LastMonthToken}
  \/ MatchNumber(p, LastWeekNToken)
  \/ MatchNumber(p, LastMonthNToken)
  \/ MatchTwoNumbers(p, MonthOfToken) /\ MatchedFirst(p, MonthOfToken) \in 1..12
  \/ MatchTwoNumbers(p, QuarterOfToken) /\ MatchedFirst(p, QuarterOfToken) \in 1..4
  \/ MatchNumber(p, YearOfToken)

AcceptableQuery(q) ==
  IF Truthy(q.period) THEN Documented(q.period.s)
  ELSE /\ Truthy(q.start_date) /\ ~DateParseIsNaN(q.start_date.s)
       /\ Truthy(q.end_date) /\ ~DateParseIsNaN(q.end_date.s)

\* C13: only the documented tokens, and explicit ranges whose start and end
\* are both present and parsable, are resolved; every other query is
\* answered 400 and resolved to no interval.
C13_OnlyDocumentedTokensResolve ==
  dates.pc = "resolved" /\ ~AcceptableQuery(dates.query) =>
    dates.status = 400 /\ dates.result.null

LeapYear(y) == y % 4 = 0 /\ (y % 100 # 0 \/ y % 400 = 0)
LastDay(y, m) ==
  IF m = 2 THEN (IF LeapYear(y) THEN 29 ELSE 28)
  ELSE IF m \in {4, 6, 9, 11} THEN 30 ELSE 31
CalendarStart(y, m) ==
  [year |-> y, month |-> m, day |-> 1, hours |-> 0, minutes |-> 0, seconds |-> 0]
CalendarEnd(y, m) ==
  [year |-> y, month |-> m, day |-> LastDay(y, m),
   hours |-> 23, minutes |-> 59, seconds |-> 59]
Interval(from, to) == [null |-> FALSE, start |-> from, end |-> to]

IsMonthToken(p) ==
  MatchTwoNumbers(p, MonthOfToken) /\ MatchedFirst(p, MonthOfToken) \in 1..12
IsQuarterToken(p) ==
  MatchTwoNumbers(p, QuarterOfToken) /\ MatchedFirst(p, QuarterOfToken) \in 1..4
IsYearToken(p) == MatchNumber(p, YearOfToken)

\* C14: for an explicit calendar token the reported date_range is the
\* literal calendar boundary: month_M_Y runs from Y-M-01 00:00:00 to the
\* last day of that month 23:59:59 (February by the leap-year rule),
\* quarter_Q_Y spans its three months, year_Y runs from Y-01-01 00:00:00 to
\* Y-12-31 23:59:59.
C14_CalendarTokensLiteralBoundaries ==
  dates.pc = "resolved" /\ Truthy(dates.query.period) =>
    LET p == dates.query.period.s
    IN /\ IsMonthToken(p) =>
            LET m == MatchedFirst(p, MonthOfToken)
                y == MatchedSecond(p, MonthOfToken)
            IN dates.result = Interval(CalendarStart(y, m), CalendarEnd(y, m))
       /\ IsQuarterToken(p) =>
            LET q == MatchedFirst(p, QuarterOfToken)
                y == MatchedSecond(p, QuarterOfToken)
            IN dates.result = Interval(CalendarStart(y, 3 * q - 2), CalendarEnd(y, 3 * q))
       /\ IsYearToken(p) =>
            LET y == MatchedNumber(p, YearOfToken)
            IN dates.result = Interval(CalendarStart(y, 1), CalendarEnd(y, 12))

\* the time value a reported 'YYYY-MM-DD HH:MM:SS' names
TimeOf(f) == MakeTime(f.year, f.month - 1, f.day, f.hours, f.minutes, f.seconds)

\* Monday 00:00:00 of the week that contains t
WeekStart(t) ==
  LET d == t \div SecondsPerDay
  IN (d - ((((d + 4) % 7) + 6) % 7)) * SecondsPerDay

\* the calendar month n months before the one that contains t
MonthBefore(t, n) ==
  LET f == UTCFields(t)
      index == f.year * 12 + f.month - 1 - n
  IN [year |-> index \div 12, month |-> (index % 12) + 1]

\* C16: last_week_N (N >= 1) is the Nth complete Monday-to-Sunday week
\* before the week containing the reference time (N = 1 the most recent
\* one), from Monday 00:00:00 to Sunday 23:59:59; last_month_N is the Nth
\* complete calendar month before the current one; both end before the
\* reference time.
C16_NthPreviousWeekAndMonth ==
  dates.pc = "resolved" /\ Truthy(dates.query.period) =>
    LET p == dates.query.period.s
        r == dates.result
    IN /\ MatchNumber(p, LastWeekNToken) /\ MatchedNumber(p, LastWeekNToken) >= 1 =>
            LET n == MatchedNumber(p, LastWeekNToken)
            IN /\ ~r.null
               /\ TimeOf(r.start) = WeekStart(dates.now) - n * 7 * SecondsPerDay
               /\ TimeOf(r.end) = TimeOf(r.start) + 7 * SecondsPerDay - 1
               /\ TimeOf(r.end) < dates.now
       /\ MatchNumber(p, LastMonthNToken) /\ MatchedNumber(p, LastMonthNToken) >= 1 =>
            LET m == MonthBefore(dates.now, MatchedNumber(p, LastMonthNToken))
            IN /\ r = Interval(CalendarStart(m.year, m.month), CalendarEnd(m.year, m.month))
               /\ TimeOf(r.end) < dates.now

\* the rolling tokens and their lengths in days
RollingDays(p) ==
  CASE p = DayToken -> 1
    [] p = WeekToken -> 7
    [] p = MonthToken -> 30
    [] p = QuarterToken -> 90
    [] p = YearToDateToken -> 365
    [] OTHER -> 0

\* C17: an explicit calendar token resolves to the same interval at any two
\* reference times, any token resolves to the same interval twice at the
\* same reference time, and a rolling token resolves to [T - length, T]
\* (24h, 7d, 30d, 90d, 365d), so that neither end moves back as T advances.
C17_ExplicitStableRollingMonotone ==
  dates.pc = "resolved" =>
    LET p == dates.query.period.s
        r == dates.result
    IN /\ RollingDays(p) > 0 =>
            r = Interval(UTCFields(dates.now - RollingDays(p) * SecondsPerDay),
                         UTCFields(dates.now))
       /\ dates.calls > 1 =>
            /\ IsMonthToken(p) \/ IsQuarterToken(p) \/ IsYearToken(p) => r = dates.prev
            /\ dates.now = dates.prevNow => r = dates.prev
            /\ RollingDays(p) > 0 =>
                 /\ TimeOf(r.start) >= TimeOf(dates.prev.start)
                 /\ TimeOf(r.end) >= TimeOf(dates.prev.end)

C17_Witness ==
  /\ dates.pc = "resolved"
  /\ dates.calls > 1
  /\ dates.now > dates.prevNow
  /\ dates.query.period = JSString(WeekToken)
  /\ dates.tz # 0

\* the events of the requested site with start <= created_at < end
InHalfOpenWindow(r) ==
  r.site = stats.query.site /\ WindowStart <= r.created_at /\ r.created_at < WindowEnd

\* the events of the requested site with start <= created_at <= end
InClosedWindow(r) ==
  r.site = stats.query.site /\ WindowStart <= r.created_at /\ r.created_at <= WindowEnd

PassesFilter(r) == stats.query.source = "" \/ r.source = stats.query.source

SeqEntries(s) == {s[i] : i \in DOMAIN s}

\* every count of the report is the number of events inside the window
CountsAre(closed) ==
  LET report == stats.report
      InWindow(r) == IF closed THEN InClosedWindow(r) ELSE InHalfOpenWindow(r)
      filtered == {r \in stats.rows : InWindow(r) /\ PassesFilter(r)}
      unfiltered == {r \in stats.rows : InWindow(r)}
      Count(set) == Cardinality(set)
  IN /\ report.total_clicks = Count({r \in filtered : r.type = "click"})
     /\ report.total_previews = Count({r \in filtered : r.type = "preview"})
     /\ \A a \in SeqEntries(report.top_articles) :
          /\ a.clicks = Count({r \in filtered : r.type = "click"
                                               /\ r.article_id = a.article_id})
          /\ \A c \in SeqEntries(a.top_countries) :
               c.clicks = Count({r \in filtered : r.type = "click"
                                                  /\ r.article_id = a.article_id
                                                  /\ r.country = c.country})
     /\ \A a \in SeqEntries(report.top_articles_previews) :
          a.previews = Count({r \in filtered : r.type = "preview"
                                               /\ r.article_id = a.article_id})
     /\ \A c \in SeqEntries(report.top_countries) :
          c.clicks = Count({r \in filtered : r.type = "click" /\ r.country = c.country})
     /\ \A s \in SeqEntries(report.sources) :
          /\ s.clicks = Count({r \in unfiltered : r.type = "click" /\ r.source = s.source})
          /\ s.previews = Count({r \in unfiltered : r.type = "preview"
                                                    /\ r.source = s.source})
          /\ s.total = Count({r \in unfiltered : r.source = s.source})

NonIncreasing(s, field) ==
  \A i \in DOMAIN s : \A j \in DOMAIN s : i < j => s[i][field] >= s[j][field]

\* the cap a limit or countries_limit parameter asks for: -1 for none ('all'),
\* the number when it is one, 5 when it is absent or no number
RequestedCap(param) ==
  IF param.k = "string" /\ param.s = All THEN -1
  ELSE IF param.k = "string" /\ AllDigits(param.s) THEN ParseInt(param.s)
  ELSE 5

\* C18: with limit a number L the lists top_articles and
\* top_articles_previews have at most L entries each, in non-increasing
\* order of count, and articles_count is the length of top_articles; only
\* limit=all lifts the cap, an absent or non-numeric limit caps at 5.
C18_LimitCapsArticleLists ==
  stats.status = 200 =>
    LET report == stats.report
        cap == RequestedCap(stats.query.limit)
    IN /\ cap >= 0 => /\ Len(report.top_articles) <= cap
                      /\ Len(report.top_articles_previews) <= cap
       /\ NonIncreasing(report.top_articles, "clicks")
       /\ NonIncreasing(report.top_articles_previews, "previews")
       /\ report.articles_count = Len(report.top_articles)

\* C19: the top_countries of an article lists only countries (not NULL) of
\* click events of that article inside the window and the source filter,
\* each with the article's own count for the country, at most countries_limit
\* of them, in non-increasing order of clicks; with countries_limit=0 no
\* article carries top_countries and the report has no top_countries key.
C19_ArticleCountriesAreItsOwn ==
  stats.status = 200 =>
    LET report == stats.report
        cap == RequestedCap(stats.query.countries_limit)
        own(a) == {r \in stats.rows : /\ InClosedWindow(r) /\ PassesFilter(r)
                                      /\ r.type = "click"
                                      /\ r.article_id = a.article_id}
    IN /\ \A a \in SeqEntries(report.top_articles) :
            /\ \A c \in SeqEntries(a.top_countries) :
                 /\ c.country # NullCountry
                 /\ c.clicks > 0
                 /\ c.clicks = Cardinality({r \in own(a) : r.country = c.country})
            /\ cap >= 0 => Len(a.top_countries) <= cap
            /\ NonIncreasing(a.top_countries, "clicks")
            /\ ~a.has_top_countries => a.top_countries = <<>>
            /\ cap = 0 => ~a.has_top_countries
       /\ cap = 0 => ~report.has_top_countries /\ report.top_countries = <<>>

\* an article listed with one country although it was clicked from two, next
\* to another article clicked from a country that is not in the list
C19_Witness ==
  /\ stats.status = 200
  /\ stats.query.countries_limit = JSString(<<"1">>)
  /\ \E a \in SeqEntries(stats.report.top_articles) :
       /\ a.has_top_countries
       /\ Len(a.top_countries) = 1
       /\ \E r \in stats.rows :
            /\ r.article_id = a.article_id /\ r.type = "click" /\ InClosedWindow(r)
            /\ r.country \notin {NullCountry, a.top_countries[1].country}
       /\ \E r \in stats.rows :
            /\ r.article_id # a.article_id /\ r.type = "click" /\ InClosedWindow(r)
            /\ r.country \notin {NullCountry, a.top_countries[1].country}

\* C20: the per-source breakdown does not depend on the source filter: it
\* lists every source with an event of the site in the window, with its
\* clicks, its previews and total = clicks + previews; total_clicks,
\* total_previews and the article and country lists count the events of the
\* filtered source only.
C20_SourcesIgnoreFilter ==
  stats.status = 200 =>
    LET report == stats.report
        inWindow == {r \in stats.rows : InClosedWindow(r)}
        filtered == {r \in inWindow : PassesFilter(r)}
    IN /\ {s.source : s \in SeqEntries(report.sources)} = {r.source : r \in inWindow}
       /\ Len(report.sources) = Cardinality({r.source : r \in inWindow})
       /\ \A s \in SeqEntries(report.sources) :
            /\ s.total = s.clicks + s.previews
            /\ s.clicks = Cardinality({r \in inWindow : r.source = s.source
                                                        /\ r.type = "click"})
            /\ s.previews = Cardinality({r \in inWindow : r.source = s.source
                                                          /\ r.type = "preview"})
       /\ report.total_clicks = Cardinality({r \in filtered : r.type = "click"})
       /\ report.total_previews = Cardinality({r \in filtered : r.type = "preview"})
       /\ \A a \in SeqEntries(report.top_articles) :
            a.clicks = Cardinality({r \in filtered : r.type = "click"
                                                     /\ r.article_id = a.article_id})
       /\ \A a \in SeqEntries(report.top_articles_previews) :
            a.previews = Cardinality({r \in filtered : r.type = "preview"
                                                       /\ r.article_id = a.article_id})
       /\ \A c \in SeqEntries(report.top_countries) :
            c.clicks = Cardinality({r \in filtered : r.type = "click"
                                                     /\ r.country = c.country})

C20_Witness ==
  /\ stats.status = 200
  /\ stats.query.source = "fb"
  /\ stats.report.total_clicks = 1
  /\ \E s \in SeqEntries(stats.report.sources) : s.source = "tg" /\ s.total = 2

(***************************************************************************)
(* fetchOGFromHTML: the page is requested with axios, parsed with cheerio  *)
(* and its meta tags are read.  An attribute that cheerio does not find is *)
(* undefined; text() of an element that is missing is the empty string.    *)
(***************************************************************************)
Absent == [k |-> "undefined", s |-> <<>>]
NullText == [k |-> "null", s |-> <<>>]
Text(str) == [k |-> "string", s |-> str]

\* ToBoolean of undefined, null or a string
TruthyText(v) == v.k = "string" /\ v.s # <<>>

\* a || b
OrText(a, b) == IF TruthyText(a) THEN a ELSE b

\* the characters of the model that \s and trim() treat as white space
WhiteSpace == {" ", "\n", "\t"}

RECURSIVE TrimStart(_)
TrimStart(s) ==
  IF s # <<>> /\ Head(s) \in WhiteSpace THEN TrimStart(Tail(s)) ELSE s

\* s.trim()
Trim(s) == Reverse(TrimStart(Reverse(TrimStart(s))))

\* s.replace(/\s+/g, ' ')
RECURSIVE CollapseWhiteSpace(_)
CollapseWhiteSpace(s) ==
  IF s = <<>> THEN <<>>
  ELSE IF Head(s) \in WhiteSpace THEN <<" ">> \o CollapseWhiteSpace(TrimStart(s))
  ELSE <<Head(s)>> \o CollapseWhiteSpace(Tail(s))

\* s.replace(/pat/g, repl) for a literal pat and a repl without $
RECURSIVE ReplaceAll(_, _, _)
ReplaceAll(s, pat, repl) ==
  IF IndexOf(s, pat) = 0 THEN s
  ELSE SubSeq(s, 1, IndexOf(s, pat) - 1) \o repl
       \o ReplaceAll(SubSeq(s, IndexOf(s, pat) + Len(pat), Len(s)), pat, repl)

\* the chain of replacements of cleanText, before its trim()
Unescape(s) ==
  ReplaceAll(ReplaceAll(ReplaceAll(ReplaceAll(ReplaceAll(ReplaceAll(CollapseWhiteSpace(s),
    <<"&", "n", "b", "s", "p", ";">>, <<" ">>),
    <<"&", "q", "u", "o", "t", ";">>, <<"\"">>),
    <<"&", "a", "p", "o", "s", ";">>, <<"'">>),
    <<"&", "a", "m", "p", ";">>, <<"&">>),
    <<"&", "l", "t", ";">>, <<"<">>),
    <<"&", "g", "t", ";">>, <<">">>)

cleanText(text) ==
  IF ~TruthyText(text) THEN NullText ELSE Text(Trim(Unescape(text.s)))

normalizeImageUrl(imageUrl, domain) ==
  IF ~TruthyText(imageUrl) THEN NullText
  ELSE IF StartsWith(imageUrl.s, <<"h", "t", "t", "p", ":", "/", "/">>) \/ StartsWith(imageUrl.s, Https)
    THEN imageUrl
  ELSE IF StartsWith(imageUrl.s, <<"/", "/">>)
    THEN Text(<<"h", "t", "t", "p", "s", ":">> \o imageUrl.s)
  ELSE IF StartsWith(imageUrl.s, <<"/">>)
    THEN Text(Https \o ToStringJS(domain) \o imageUrl.s)
  ELSE Text(Https \o ToStringJS(domain) \o <<"/">> \o imageUrl.s)

\* the outcome of a call: a returned value or a thrown error
Returned(value) == [kind |-> "return", value |-> value]
Thrown == [kind |-> "throw", value |-> [isNull |-> TRUE]]
Pending == [kind |-> "pending", value |-> [isNull |-> TRUE]]
NullOg == [isNull |-> TRUE]

\* the url the fetcher requests
HtmlUrl(siteConfig, articleSlug) ==
  Https \o ToStringJS(siteConfig.domain) \o <<"/">> \o articleSlug \o <<"/">>

\* the three fallback chains of the fetcher
TitleOf(page) ==
  OrText(OrText(OrText(page.ogTitle, page.metaTitle), Text(Trim(page.titleText))), NullText)

DescriptionOf(page) ==
  OrText(OrText(OrText(page.ogDescription, page.metaDescription), page.propDescription),
         NullText)

ImageOf(page) ==
  OrText(OrText(OrText(OrText(page.ogImage, page.metaImage), page.propImage),
                page.linkImage), NullText)

\* the statements after cheerio.load(data)
Extract(page, siteConfig) ==
  IF ~TruthyText(TitleOf(page)) THEN Returned(NullOg)
  ELSE Returned([isNull |-> FALSE,
                 title |-> cleanText(TitleOf(page)),
                 description |-> cleanText(DescriptionOf(page)),
                 image |-> IF TruthyText(ImageOf(page))
                           THEN normalizeImageUrl(ImageOf(page), siteConfig.domain)
                           ELSE NullText])
NoOtherTags ==
  [ogDescription |-> Absent, metaDescription |-> Absent, propDescription |-> Absent,
   ogImage |-> Absent, metaImage |-> Absent, propImage |-> Absent, linkImage |-> Absent]

\* what cheerio reads from a body without any of the tags
EmptyPage == [ogTitle |-> Absent, metaTitle |-> Absent, titleText |-> <<>>] @@ NoOtherTags

\* the try block of fetchOGFromHTML once the axios promise has settled:
\* a rejected request and a body cheerio cannot load throw
TryFetchOGFromHTML(response, page, siteConfig) ==
  IF response.kind = "error" THEN Thrown
  ELSE IF ~(response.status >= 200 /\ response.status < 400) THEN Thrown
  ELSE IF ~response.loads THEN Thrown
  ELSE Extract(IF response.hasBody THEN page ELSE EmptyPage, siteConfig)

\* as CatchReturnsNull, but without the catch block
CatchRethrows(outcome) == outcome

\* catch (error) { console.error(...); return null; }
CatchReturnsNull(outcome) == IF outcome.kind = "throw" THEN Returned(NullOg) ELSE outcome

fetchOGFromHTML(response, page, siteConfig) ==
  CatchReturnsNull(TryFetchOGFromHTML(response, page, siteConfig))

(***************************************************************************)
(* One call of fetchOGData for a site that is scraped (or whose og_method  *)
(* has no fetcher), with every page and every way the request can end.     *)
(***************************************************************************)
HtmlTitleTags ==
  [ogTitle : {Absent, Text(<<>>), Text(<<" ">>), Text(<<"O", "g">>), Text(<<" ", "A", " ", " ", "B", " ">>)},
   metaTitle : {Absent, Text(<<" ", "\n">>), Text(<<"M", "t">>), Text(<<"&", "n", "b", "s", "p", ";">>)},
   titleText : {<<>>, <<" ">>, <<"T", "t">>, <<" ", "T", " ", "&", "a", "m", "p", ";", " ", "t", " ">>}]

HtmlOtherTags ==
  { NoOtherTags,
    [NoOtherTags EXCEPT !.ogDescription = Text(<<"D", " ", " ", "d">>), !.ogImage = Text(<<"h", "t", "t", "p", ":", "/", "/", "c", ".", "i", "o", "/", "i">>)],
    [NoOtherTags EXCEPT !.metaDescription = Text(<<" ", "&", "q", "u", "o", "t", ";", "d", "&", "q", "u", "o", "t", ";">>), !.metaImage = Text(<<"/", "/", "c", ".", "i", "o", "/", "i">>)],
    [NoOtherTags EXCEPT !.ogDescription = Text(<<>>), !.propDescription = Text(<<"p">>),
                        !.propImage = Text(<<"/", "i">>)],
    [NoOtherTags EXCEPT !.ogImage = Text(<<>>), !.linkImage = Text(<<"i">>)],
    [NoOtherTags EXCEPT !.metaDescription = Text(<<" ">>), !.ogImage = Text(<<"h", "t", "t", "p", "s", ":", "/", "/", "c", ".", "i", "o", "/", "i">>)] }

HtmlPages == {titles @@ others : titles \in HtmlTitleTags, others \in HtmlOtherTags}

HtmlSiteConfigs ==
  { SiteObject([NoSiteFields EXCEPT !.domain = JSString(<<"b", ".", "i", "o">>),
                                    !.og_method = JSString(HtmlFetch),
                                    !.url_pattern = pat]) : pat \in UrlPatterns }
  \cup { SiteObject([NoSiteFields EXCEPT !.domain = JSString(<<"b", ".", "i", "o">>),
                                         !.og_method = JSString(m)]) :
           m \in {ApiMethod, <<"r", "s", "s">>} }

HtmlSlugs == {<<"a", "b", "c">>, <<"m", "y", "-", "p", "o", "s", "t">>}

\* how the axios promise settles: a response with its final status, or an
\* error (timeout, refused connection, more than maxRedirects redirects)
AxiosResponses ==
  [kind : {"response"}, status : {200, 304, 404, 500}, code : {""},
   hasBody : BOOLEAN, loads : BOOLEAN]
  \cup [kind : {"error"}, status : {0},
        code : {"ECONNABORTED", "ECONNREFUSED", "ERR_FR_TOO_MANY_REDIRECTS"},
        hasBody : {FALSE}, loads : {FALSE}]
NoAxiosResponse ==
  [kind |-> "none", status |-> 0, code |-> "", hasBody |-> FALSE, loads |-> FALSE]

\* the variables of the pipeline and of the other single-component models, idle
IdleServer ==
  /\ req = [r \in Slots |-> IdleRequest]
  /\ clicks = <<>>
  /\ wpInUse = 0
  /\ wpPool = FALSE
  /\ urlCase = NoUrlCase
  /\ urlOut = NoUrlOut
  /\ og = NoOg
  /\ dates = NoDates
  /\ stats = NoStats

InitHtml ==
  /\ IdleServer
  /\ html \in [pc : {"start"}, cfg : HtmlSiteConfigs, slug : HtmlSlugs, page : HtmlPages,
               url : {<<>>}, response : {NoAxiosResponse},
               fetcher : {Pending}, router : {Pending}]
  /\ bot = NoBot
  /\ upd = NoUpdate
  /\ wp = NoPost
  /\ backfill = NoBackfill

\* fetchOGData up to its first await: the switch either calls fetchOGFromHTML,
\* which builds its url and awaits axios.get, or ends inside the try block
\* with a throw ('api') or a return null (default)
FetchOGDataHtmlCall ==
  /\ html.pc = "start"
  /\ SwitchMethod(html.cfg) \in {"fetchOGFromHTML", "throw", "default"}
  /\ html' =
       CASE SwitchMethod(html.cfg) = "fetchOGFromHTML" ->
              [html EXCEPT !.pc = "axios", !.url = HtmlUrl(html.cfg, html.slug)]
         [] SwitchMethod(html.cfg) = "throw" ->
              [html EXCEPT !.pc = "returned", !.router = CatchReturnsNull(Thrown)]
         [] OTHER ->
              [html EXCEPT !.pc = "returned", !.router = CatchReturnsNull(Returned(NullOg))]
  /\ UNCHANGED <<req, clicks, wpInUse, wpPool, urlCase, urlOut, og, dates, stats,
                 bot, upd, wp, backfill>>

\* the axios promise settles and fetchOGFromHTML runs to its return
AxiosSettles ==
  /\ html.pc = "axios"
  /\ \E response \in AxiosResponses :
       html' = [html EXCEPT !.pc = "settled", !.response = response,
                            !.fetcher = fetchOGFromHTML(response, html.page, html.cfg)]
  /\ UNCHANGED <<req, clicks, wpInUse, wpPool, urlCase, urlOut, og, dates, stats,
                 bot, upd, wp, backfill>>

\* return await fetchOGFromHTML(...) inside the try block of fetchOGData
FetchOGDataHtmlReturn ==
  /\ html.pc = "settled"
  /\ html' = [html EXCEPT !.pc = "returned", !.router = CatchReturnsNull(html.fetcher)]
  /\ UNCHANGED <<req, clicks, wpInUse, wpPool, urlCase, urlOut, og, dates, stats,
                 bot, upd, wp, backfill>>

NextHtml == FetchOGDataHtmlCall \/ AxiosSettles \/ FetchOGDataHtmlReturn

SpecHtml == InitHtml /\ [][NextHtml]_vars

\* the request did not end with a page the fetcher could read
RequestFailed(response) ==
  \/ response.kind = "error"
  \/ response.status < 200
  \/ response.status >= 400
  \/ ~response.loads

\* C21: the HTML-scrape fetcher never raises: a timeout, a connection error,
\* a status outside the accepted range, too many redirects and a body that
\* cannot be parsed each make it return null, and fetchOGData never raises
\* whatever the chosen branch does.
C21_FetchersNeverRaise ==
  /\ html.response.kind # "none" =>
       /\ html.fetcher.kind = "return"
       /\ RequestFailed(html.response) => html.fetcher.value = NullOg
  /\ html.pc = "returned" =>
       /\ html.router.kind = "return"
       /\ SwitchMethod(html.cfg) = "throw" => html.router.value = NullOg

\* a request that timed out has been answered with null by the fetcher and
\* by the router
C21_Witness ==
  /\ html.pc = "returned"
  /\ html.response.code = "ECONNABORTED"
  /\ html.fetcher = Returned(NullOg)
  /\ html.router = Returned(NullOg)

\* the title candidates of a page in their order of precedence, cleaned
TitleCandidates(page) ==
  <<cleanText(page.ogTitle), cleanText(page.metaTitle), cleanText(Text(page.titleText))>>

\* the response carried a page that the fetcher read
PageRead(response) ==
  response.kind = "response" /\ ~RequestFailed(response) /\ response.hasBody

\* C22: when the fetcher returns metadata its title is non-empty and is the
\* first non-empty candidate in the order og:title, meta name=title, title
\* element; when no candidate is non-empty (white space only counts as
\* empty) the fetcher returns null.
C22_TitleIsFirstNonEmptyCandidate ==
  PageRead(html.response) =>
    LET candidates == TitleCandidates(html.page)
        nonEmpty == {i \in 1..3 : TruthyText(candidates[i])}
    IN IF nonEmpty = {} THEN html.fetcher = Returned(NullOg)
       ELSE /\ html.fetcher.kind = "return"
            /\ ~html.fetcher.value.isNull
            /\ TruthyText(html.fetcher.value.title)
            /\ html.fetcher.value.title =
                 candidates[CHOOSE i \in nonEmpty : \A j \in nonEmpty : i <= j]

\* C24: the url the metadata fetcher requests is built from the site's
\* url_pattern: it is the redirect target of the same site and articleId
\* without its query string.
C24_FetchUrlFollowsUrlPattern ==
  html.url # <<>> =>
    \A utm \in UrlSources :
      html.url = WithoutQuery(BuildTargetUrl(html.cfg, utm, html.slug))

(***************************************************************************)
(* detectBot on its own: the handler reads the User-Agent header, replaces *)
(* an absent header by '' and classifies it; the same is done for the      *)
(* header with characters added before and after it.                       *)
(***************************************************************************)
BotHeaders ==
  { JSUndefined, JSString(<<>>),
    JSString(<<"M", "o", "z", "i", "l", "l", "a", "/", "5", ".", "0", " ", "C", "h", "r", "o", "m", "e">>),
    JSString(<<"c", "u", "r", "l", "/", "8">>),
    JSString(<<"f", "a", "c", "e", "b", "o", "o", "k", "e", "x", "t", "e", "r", "n", "a", "l", "h", "i", "t", "/", "1", ".", "1">>),
    JSString(<<"T", "W", "I", "T", "T", "E", "R", "B", "O", "T", "/", "1", ".", "0">>),
    JSString(<<"G", "o", "o", "g", "l", "e", "b", "o", "t">>),
    JSString(<<"w", "h", "a", "t", "s", "a", "p", "p">>),
    JSString(<<"W", "h", "a", "t", "s", "A", "p", "p", "/", "2">>),
    JSString(<<"M", "y", " ", "S", "p", "i", "d", "e", "r">>),
    JSString(<<"S", "C", "R", "A", "P", "E", "R">>),
    JSString(<<"W", "e", "b", "-", "C", "r", "a", "w", "l", "e", "r", " ", "2">>),
    JSString(<<"r", "o", "b", "o", "t", "i", "c", "s">>),
    JSString(<<"B", "o", " ", "t">>),
    JSString(<<"c", "r", "a", "w", "l", "e">>),
    JSString(<<"B", "o">>) }

BotPrefixes == {<<>>, <<"X", " ">>, <<"b", "o">>, <<"S", "a", "f", "a", "r", "i", "/">>}
BotSuffixes == {<<>>, <<" ", "y">>, <<"t">>, <<"r">>}

\* const userAgent = req.headers['user-agent'] || ''
UserAgentOf(header) == JSOr(header, JSString(<<>>)).s

InitBot ==
  /\ IdleServer
  /\ html = NoHtml
  /\ bot \in [pc : {"start"}, header : BotHeaders, prefix : BotPrefixes, suffix : BotSuffixes,
              isBot : {FALSE}, longerIsBot : {FALSE}]
  /\ upd = NoUpdate
  /\ wp = NoPost
  /\ backfill = NoBackfill

\* the handler classifies the request
Classify ==
  /\ bot.pc = "start"
  /\ bot' = [bot EXCEPT !.pc = "classified", !.isBot = detectBot(UserAgentOf(bot.header))]
  /\ UNCHANGED <<req, clicks, wpInUse, wpPool, urlCase, urlOut, og, dates, stats,
                 html, upd, wp, backfill>>

\* a second request carries the same header with characters added around it
ClassifyLonger ==
  /\ bot.pc = "classified"
  /\ bot' = [bot EXCEPT !.pc = "both",
                        !.longerIsBot =
                          detectBot(bot.prefix \o UserAgentOf(bot.header) \o bot.suffix)]
  /\ UNCHANGED <<req, clicks, wpInUse, wpPool, urlCase, urlOut, og, dates, stats,
                 html, upd, wp, backfill>>

NextBot == Classify \/ ClassifyLonger

SpecBot == InitBot /\ [][NextBot]_vars

\* two characters that differ at most in case
SameLetter(a, b) ==
  \/ a = b
  \/ a \in DOMAIN UpperToLower /\ UpperToLower[a] = b
  \/ b \in DOMAIN UpperToLower /\ UpperToLower[b] = a

\* signature occurs in text at position i, letter case ignored
OccursAt(text, signature, i) ==
  /\ i + Len(signature) - 1 <= Len(text)
  /\ \A k \in 1..Len(signature) : SameLetter(text[i + k - 1], signature[k])

ContainsSignature(text) ==
  \E n \in 1..Len(botPatterns), i \in 1..Len(text) : OccursAt(text, botPatterns[n], i)

\* C23: the verdict is Bot exactly when the user agent contains a signature
\* of the list as a substring, letter case ignored; an absent or empty user
\* agent is Human; characters added before or after a Bot user agent keep it
\* Bot.
C23_BotIffSignatureSubstring ==
  /\ bot.pc \in {"classified", "both"} =>
       /\ bot.isBot <=> (bot.header.k = "string" /\ ContainsSignature(bot.header.s))
       /\ bot.header \in {JSUndefined, JSString(<<>>)} => ~bot.isBot
  /\ bot.pc = "both" => (bot.isBot => bot.longerIsBot)

\* a crawler that writes its name in capitals was classified Bot, and stays
\* Bot with characters around its header
C23_Witness ==
  /\ bot.pc = "both"
  /\ bot.header = JSString(<<"T", "W", "I", "T", "T", "E", "R", "B", "O", "T", "/", "1", ".", "0">>)
  /\ bot.prefix # <<>>
  /\ bot.suffix # <<>>
  /\ bot.isBot
  /\ bot.longerIsBot

(***************************************************************************)
(* scripts/update.sh: main runs its steps in order under `set -e`; a       *)
(* command that fails outside a condition ends the script at once, and     *)
(* `exit 1` ends it wherever it is written.  The model starts after the    *)
(* operator has confirmed the update.                                      *)
(***************************************************************************)
\* RETRIES of health_check
RETRIES == 3

\* the script ends with this exit status after the step `step` failed
ExitAfter(u, step, status) == [u EXCEPT !.pc = "exited", !.failed = step, !.status = status]

InitUpdate ==
  /\ IdleServer
  /\ html = NoHtml
  /\ bot = NoBot
  /\ upd \in [pc : {"create_backup"}, skipBackup : BOOLEAN, hasMigrate : BOOLEAN,
              service : {"active", "inactive"}, backup : {FALSE},
              files : {"old"}, modules : {"old"}, attempt : {1},
              failed : {""}, rolledBack : {FALSE}, status : {0}]
  /\ wp = NoPost
  /\ backfill = NoBackfill

\* create_backup: cp -r "$ROOT_DIR" "$BACKUP_PATH", unless --skip-backup
CreateBackup ==
  /\ upd.pc = "create_backup"
  /\ \/ /\ upd.skipBackup
        /\ upd' = [upd EXCEPT !.pc = "stop_service"]
     \/ /\ ~upd.skipBackup
        /\ \/ upd' = [upd EXCEPT !.pc = "stop_service", !.backup = TRUE]
           \/ upd' = ExitAfter(upd, "create_backup", 1)
  /\ UNCHANGED <<req, clicks, wpInUse, wpPool, urlCase, urlOut, og, dates, stats,
                 html, bot, wp, backfill>>

\* stop_service: systemctl stop, when the service is active
StopService ==
  /\ upd.pc = "stop_service"
  /\ upd' = [upd EXCEPT !.pc = "download_version", !.service = "inactive"]
  /\ UNCHANGED <<req, clicks, wpInUse, wpPool, urlCase, urlOut, og, dates, stats,
                 html, bot, wp, backfill>>

\* download_version: curl, tar and find; a failed curl and a missing
\* directory end in `exit 1`, a failed tar ends the script through set -e
DownloadVersion ==
  /\ upd.pc = "download_version"
  /\ \/ upd' = [upd EXCEPT !.pc = "update_files"]
     \/ upd' = ExitAfter(upd, "download_version", 1)
  /\ UNCHANGED <<req, clicks, wpInUse, wpPool, urlCase, urlOut, og, dates, stats,
                 html, bot, wp, backfill>>

\* update_files: the old files are removed with find -exec rm -rf and the
\* new ones copied with cp -r; a failure of either ends the script
UpdateFiles ==
  /\ upd.pc = "update_files"
  /\ \/ upd' = [upd EXCEPT !.pc = "update_dependencies", !.files = "new"]
     \/ upd' = ExitAfter([upd EXCEPT !.files = "partial"], "update_files", 1)
  /\ UNCHANGED <<req, clicks, wpInUse, wpPool, urlCase, urlOut, og, dates, stats,
                 html, bot, wp, backfill>>

\* update_dependencies: npm install --production, rollback when it fails
UpdateDependencies ==
  /\ upd.pc = "update_dependencies"
  /\ \/ upd' = [upd EXCEPT !.pc = "run_migrations", !.modules = "new"]
     \/ upd' = [upd EXCEPT !.pc = "rollback", !.modules = "partial",
                           !.failed = "update_dependencies"]
  /\ UNCHANGED <<req, clicks, wpInUse, wpPool, urlCase, urlOut, og, dates, stats,
                 html, bot, wp, backfill>>

\* run_migrations: scripts/migrate.sh when the release has one
RunMigrations ==
  /\ upd.pc = "run_migrations"
  /\ \/ upd' = [upd EXCEPT !.pc = "start_service"]
     \/ /\ upd.hasMigrate
        /\ upd' = [upd EXCEPT !.pc = "rollback", !.failed = "run_migrations"]
  /\ UNCHANGED <<req, clicks, wpInUse, wpPool, urlCase, urlOut, og, dates, stats,
                 html, bot, wp, backfill>>

\* start_service: systemctl start, not inside a condition
StartService ==
  /\ upd.pc = "start_service"
  /\ \/ upd' = [upd EXCEPT !.pc = "health_check", !.service = "active"]
     \/ upd' = ExitAfter(upd, "start_service", 1)
  /\ UNCHANGED <<req, clicks, wpInUse, wpPool, urlCase, urlOut, og, dates, stats,
                 html, bot, wp, backfill>>

\* health_check: one pass of the loop; after a 200 main runs cleanup and
\* print_summary and ends with status 0; a service that crashed on start is
\* no longer active
HealthCheck ==
  /\ upd.pc = "health_check"
  /\ \/ upd' = [upd EXCEPT !.pc = "exited", !.status = 0]
     \/ \E service \in {"active", "inactive"} :
          upd' = IF upd.attempt < RETRIES
                 THEN [upd EXCEPT !.attempt = @ + 1, !.service = service]
                 ELSE [upd EXCEPT !.pc = "rollback", !.service = service,
                                  !.failed = "health_check"]
  /\ UNCHANGED <<req, clicks, wpInUse, wpPool, urlCase, urlOut, og, dates, stats,
                 html, bot, wp, backfill>>
\* rollback up to the restored files: return 1 without a backup (the caller
\* then ends with status 1), else systemctl stop, rm -rf "$ROOT_DIR" and
\* cp -r "$BACKUP_PATH" "$ROOT_DIR"; the backup holds no node_modules
RollbackRestore ==
  /\ upd.pc = "rollback"
  /\ \/ /\ upd.skipBackup \/ ~upd.backup
        /\ upd' = [upd EXCEPT !.pc = "exited", !.status = 1]
     \/ /\ ~upd.skipBackup /\ upd.backup
        /\ \/ upd' = [upd EXCEPT !.pc = "rollback_install", !.service = "inactive",
                                 !.files = "old", !.modules = "none"]
           \/ upd' = [upd EXCEPT !.pc = "exited", !.status = 1, !.service = "inactive",
                                 !.files = "partial", !.modules = "none"]
  /\ UNCHANGED <<req, clicks, wpInUse, wpPool, urlCase, urlOut, og, dates, stats,
                 html, bot, wp, backfill>>

\* rollback: npm install --production in the restored directory
RollbackInstall ==
  /\ upd.pc = "rollback_install"
  /\ \/ upd' = [upd EXCEPT !.pc = "rollback_start", !.modules = "old"]
     \/ upd' = [upd EXCEPT !.pc = "exited", !.status = 1, !.modules = "partial"]
  /\ UNCHANGED <<req, clicks, wpInUse, wpPool, urlCase, urlOut, og, dates, stats,
                 html, bot, wp, backfill>>

\* rollback: systemctl start, then the health request whose result is only
\* printed; the caller ends the script with exit 1
RollbackStart ==
  /\ upd.pc = "rollback_start"
  /\ \/ upd' = [upd EXCEPT !.pc = "exited", !.status = 1, !.service = "active",
                           !.rolledBack = TRUE]
     \/ upd' = [upd EXCEPT !.pc = "exited", !.status = 1]
  /\ UNCHANGED <<req, clicks, wpInUse, wpPool, urlCase, urlOut, og, dates, stats,
                 html, bot, wp, backfill>>

NextUpdate ==
  \/ CreateBackup
  \/ StopService
  \/ DownloadVersion
  \/ UpdateFiles
  \/ UpdateDependencies
  \/ RunMigrations
  \/ StartService
  \/ HealthCheck
  \/ RollbackRestore
  \/ RollbackInstall
  \/ RollbackStart

SpecUpdate == InitUpdate /\ [][NextUpdate]_vars

\* the steps of main that run after stop_service
StepsAfterStop ==
  {"download_version", "update_files", "update_dependencies", "run_migrations",
   "start_service", "health_check"}

\* C25: a run in which a step after stop_service failed ends with the
\* installation directory restored from the backup and the service running
\* the previous version again: never with the service stopped or with a
\* partly replaced installation.
C25_FailedUpdateRollsBack ==
  (upd.pc = "exited" /\ upd.failed \in StepsAfterStop) =>
    /\ upd.files = "old"
    /\ upd.modules = "old"
    /\ upd.service = "active"

(***************************************************************************)
(* Order of the event insert, the metadata fetch and the response.         *)
(***************************************************************************)
\* the positions of a handler whose metadata fetch has started
Fetching(rq) ==
  rq.pc \in {"getConnection", "queryPost", "queryThumbnail", "queryAttachment",
             "queryMeta", "httpGet"}

\* the row logClick inserts for the request
PreviewRowOf(rq) ==
  [source |-> rq.source, site |-> rq.site, article_id |-> rq.articleId,
   type |-> "preview", user_agent |-> rq.userAgent]

\* C26: every resolved request attempts exactly one insert, and the insert
\* has settled, successfully or not, before the metadata fetch starts and
\* before a response is sent; a bot whose fetch ended without metadata has
\* still stored its preview row when the insert succeeded, and no request
\* makes two inserts.
C26_OneInsertBeforeFetchAndResponse ==
  \A r \in Slots :
    /\ req[r].inserts <= 1
    /\ req[r].pc = "logClick" =>
         /\ req[r].inserts = 0
         /\ req[r].ogData = "none"
         /\ req[r].response = NoResponse
    /\ (Fetching(req[r]) \/ (req[r].pc = "done" /\ Resolved(req[r]))) => req[r].inserts = 1
    /\ Fetching(req[r]) => req[r].response = NoResponse
    /\ (req[r].pc = "done" /\ req[r].isBot /\ req[r].ogData = "null" /\ req[r].insertOk) =>
         \E i \in 1..Len(clicks) : clicks[i] = PreviewRowOf(req[r])

\* a bot was redirected to the bare domain after its fetch found nothing,
\* and its preview row is in the table
C26_Witness ==
  \E r \in Slots :
    /\ req[r].pc = "done" /\ req[r].isBot /\ req[r].ogData = "null"
    /\ req[r].inserts = 1 /\ req[r].insertOk
    /\ req[r].response.status = 302
    /\ \E i \in 1..Len(clicks) : clicks[i] = PreviewRowOf(req[r])

(***************************************************************************)
(* The queries behind one stats report.                                    *)
(***************************************************************************)
\* the queries of a report that are issued whatever the rows are: the two
\* totals, the two article lists and the sources breakdown
FixedQueries ==
  Cardinality({"totalClicks", "totalPreviews", "clicksQuery", "previewsQuery",
               "sourcesQuery"})

\* the queries of the report beyond the fixed ones and the site-wide
\* countries list: those that fetch the countries of the selected articles
ArticleCountryQueries ==
  stats.queries - FixedQueries - (IF stats.report.has_top_countries THEN 1 ELSE 0)

\* C27: a stats request issues at most seven queries however many articles
\* it selects: the countries of the selected articles come from exactly one
\* query, issued only when at least one article was selected and countries
\* are not disabled, and every article that lists countries is one of the
\* selected articles.
C27_ArticleCountriesInOneQuery ==
  (stats.pc = "done" /\ stats.status = 200) =>
    /\ stats.queries <= FixedQueries + 2
    /\ ArticleCountryQueries =
         (IF stats.report.articles_count > 0 /\ stats.report.has_top_countries
          THEN 1 ELSE 0)
    /\ stats.report.articles_count = Len(stats.report.top_articles)
    /\ \A i \in DOMAIN stats.report.top_articles :
         stats.report.top_articles[i].has_top_countries =>
           stats.report.has_top_countries

\* a report that selected two articles and lists countries for both was
\* assembled from seven queries, as a report with one article is
C27_Witness ==
  /\ stats.pc = "done" /\ stats.status = 200
  /\ stats.report.articles_count = 2
  /\ stats.report.has_top_countries
  /\ Cardinality({i \in DOMAIN stats.report.top_articles :
                    stats.report.top_articles[i].has_top_countries}) >= 2
  /\ stats.queries = FixedQueries + 2

(***************************************************************************)
(* fetchOGFromWordPress after its last query: the title and description of *)
(* the post, the SEO overrides of wp_postmeta applied in the order the     *)
(* rows came back, and cleanQuotes.  Characters outside ASCII are written  *)
(* by their code point.                                                    *)
(***************************************************************************)
\* the maxLength the fetcher passes to truncateToLastWord
DescriptionLength == 160

\* html.replace(/<[^>]*>/g, ''): a '<' with a '>' somewhere after it is
\* removed together with everything up to the first such '>'
\* the part of s from its first '>' after position from on; <<>> when none
AfterTag(s, from) ==
  IF IndexOf(SubSeq(s, from, Len(s)), <<">">>) = 0 THEN <<>>
  ELSE SubSeq(s, from + IndexOf(SubSeq(s, from, Len(s)), <<">">>), Len(s))

\* s has a tag: a '<' with a '>' somewhere after it
HasTag(s) ==
  /\ IndexOf(s, <<"<">>) # 0
  /\ IndexOf(SubSeq(s, IndexOf(s, <<"<">>), Len(s)), <<">">>) # 0

RECURSIVE StripTags(_)
StripTags(s) ==
  IF ~HasTag(s) THEN s
  ELSE SubSeq(s, 1, IndexOf(s, <<"<">>) - 1) \o StripTags(AfterTag(s, IndexOf(s, <<"<">>)))

stripHtml(content) == Trim(StripTags(content))

\* s.lastIndexOf(' '), 1-based; 0 when s has no space
LastIndexOfSpace(s) ==
  IF \A i \in DOMAIN s : s[i] # " " THEN 0
  ELSE CHOOSE i \in DOMAIN s : s[i] = " " /\ \A j \in DOMAIN s : s[j] = " " => j <= i

\* truncated.substring(0, lastSpaceIndex) when lastSpaceIndex > 0
TruncateAt(truncated, lastSpace) ==
  IF lastSpace > 1 THEN SubSeq(truncated, 1, lastSpace - 1) ELSE truncated

truncateToLastWord(text, maxLength) ==
  IF Len(text) <= maxLength THEN text
  ELSE TruncateAt(SubSeq(text, 1, maxLength), LastIndexOfSpace(SubSeq(text, 1, maxLength)))

DoubleQuotes == {"\"", "U+201C", "U+201D", "U+2019", "U+2018"}

cleanQuotes(text) == [i \in DOMAIN text |-> IF text[i] \in DoubleQuotes THEN "'" ELSE text[i]]

YoastTitle == "_yoast_wpseo_title"
YoastDescription == "_yoast_wpseo_metadesc"
RankMathTitle == "rank_math_title"
RankMathDescription == "rank_math_description"

\* one pass of the callback of metaData.forEach over acc = [title, description]
ApplyOverride(meta, acc) ==
  [title |-> IF meta.meta_key \in {YoastTitle, RankMathTitle} /\ meta.meta_value # <<>>
             THEN meta.meta_value ELSE acc.title,
   description |-> IF meta.meta_key \in {YoastDescription, RankMathDescription}
                      /\ meta.meta_value # <<>>
                   THEN meta.meta_value ELSE acc.description]

RECURSIVE ForEachOverride(_, _)
ForEachOverride(metaData, acc) ==
  IF metaData = <<>> THEN acc
  ELSE ForEachOverride(Tail(metaData), ApplyOverride(Head(metaData), acc))

\* let description = post.post_excerpt || truncateToLastWord(stripHtml(post.post_content), 160)
DerivedDescription(post) ==
  IF post.post_excerpt # <<>> THEN post.post_excerpt
  ELSE truncateToLastWord(stripHtml(post.post_content), DescriptionLength)

\* the title and description of the object the fetcher returns
QuotesCleaned(acc) ==
  [title |-> cleanQuotes(acc.title), description |-> cleanQuotes(acc.description)]

FormOgData(post, metaData) ==
  QuotesCleaned(ForEachOverride(metaData, [title |-> post.post_title,
                                           description |-> DerivedDescription(post)]))
(***************************************************************************)
(* One published post, the rows of its SEO keys, and two fetches of it     *)
(* that receive the rows in an order of the store's choosing.              *)
(***************************************************************************)
Repeat(c, n) == [i \in 1..n |-> c]

\* post_content: a word of x, a separator, a word of y
PostContents ==
  { Repeat("x", a) \o sep \o Repeat("y", b) :
      a \in {3, 100, 159, 160, 161}, b \in {0, 1, 70},
      sep \in {<<" ">>, <<"\n">>, <<"<", "b", "r", ">">>, <<" ", "<", "b", ">", "z", "<", "/", "b", ">", " ">>} }

ShortContent == <<"<", "p", ">", "i", "t", " ", "i", "s", " ", "\"", "s", "o", "\"", " ", "<", "/", "p", ">">>

MetaValues ==
  YoastTitle :> {<<>>, <<"Y", "o", "a", "s", "t">>} @@ RankMathTitle :> {<<>>, <<"R", "a", "n", "k">>}
  @@ YoastDescription :> {<<>>, <<"y", "U+2019", "s">>} @@ RankMathDescription :> {<<>>, <<"r", "a", "n", "k">>}

\* wp_postmeta holds at most one row for each key of a post
MetaTables ==
  {rows \in SUBSET [meta_key : DOMAIN MetaValues,
                    meta_value : UNION {MetaValues[k] : k \in DOMAIN MetaValues}] :
     /\ \A m \in rows : m.meta_value \in MetaValues[m.meta_key]
     /\ \A m, n \in rows : m.meta_key = n.meta_key => m = n}

\* the orders in which a query without ORDER BY can return the rows
RowOrders(rows) ==
  {order \in [1..Cardinality(rows) -> rows] :
     \A i, j \in 1..Cardinality(rows) : order[i] = order[j] => i = j}

NoOgData == [title |-> <<>>, description |-> <<>>]

InitPost ==
  /\ IdleServer
  /\ html = NoHtml
  /\ bot = NoBot
  /\ upd = NoUpdate
  /\ \E content \in PostContents \cup {ShortContent}, excerpt \in {<<>>, <<"E", "x">>},
        rows \in MetaTables :
       /\ content = ShortContent \/ Cardinality(rows) <= 1
       /\ wp = [pc |-> "start",
                post |-> [post_title |-> <<"A", " ", "\"", "T", "\"">>, post_excerpt |-> excerpt,
                          post_content |-> content],
                rows |-> rows, first |-> NoOgData, second |-> NoOgData]
  /\ backfill = NoBackfill

\* a bot asks for the post: the metadata query returns and the fetcher forms
\* its result
FetchPost ==
  /\ wp.pc = "start"
  /\ \E metaData \in RowOrders(wp.rows) :
       wp' = [wp EXCEPT !.pc = "fetched", !.first = FormOgData(wp.post, metaData)]
  /\ UNCHANGED <<req, clicks, wpInUse, wpPool, urlCase, urlOut, og, dates, stats,
                 html, bot, upd, backfill>>

\* another bot asks for the same post
FetchPostAgain ==
  /\ wp.pc = "fetched"
  /\ \E metaData \in RowOrders(wp.rows) :
       wp' = [wp EXCEPT !.pc = "both", !.second = FormOgData(wp.post, metaData)]
  /\ UNCHANGED <<req, clicks, wpInUse, wpPool, urlCase, urlOut, og, dates, stats,
                 html, bot, upd, backfill>>

NextPost == FetchPost \/ FetchPostAgain

SpecPost == InitPost /\ [][NextPost]_vars

\* the rows of the keys that carry a value
Overrides(rows, keys) == {m \in rows : m.meta_key \in keys /\ m.meta_value # <<>>}

\* C28: without an excerpt and without an override description the
\* description is the markup-stripped content when that has at most 160
\* characters, and otherwise a prefix of it of at most 160 characters that
\* ends at a word boundary: the character after the cut is white space, also
\* when the first 160 characters contain no space.
C28_DescriptionCutAtWordBoundary ==
  (/\ wp.pc \in {"fetched", "both"}
   /\ wp.post.post_excerpt = <<>>
   /\ Overrides(wp.rows, {YoastDescription, RankMathDescription}) = {}) =>
    LET stripped == cleanQuotes(stripHtml(wp.post.post_content))
        description == wp.first.description
    IN IF Len(stripped) <= DescriptionLength THEN description = stripped
       ELSE /\ Len(description) <= DescriptionLength
            /\ description = SubSeq(stripped, 1, Len(description))
            /\ stripped[Len(description) + 1] \in WhiteSpace

\* C29: with several SEO override keys present the title and description do
\* not depend on the order in which the store returns the rows, and an
\* override that is present but empty leaves the base value in place.
C29_OverridesIndependentOfRowOrder ==
  /\ wp.pc = "both" => wp.first = wp.second
  /\ wp.pc \in {"fetched", "both"} =>
       /\ Overrides(wp.rows, {YoastTitle, RankMathTitle}) = {} =>
            wp.first.title = cleanQuotes(wp.post.post_title)
       /\ Overrides(wp.rows, {YoastDescription, RankMathDescription}) = {} =>
            wp.first.description = cleanQuotes(DerivedDescription(wp.post))

(***************************************************************************)
(* scripts/backfill-countries.js: the rows without a country are counted,  *)
(* then read in batches with LIMIT batchSize OFFSET offset and updated one *)
(* by one.  No other client writes to the table during the run.            *)
(***************************************************************************)
\* rows of the clicks table at the start of the run
MaxBackfillRows == 4
\* batchSize of the script, 1000, scaled to the tables of the model
BatchSize == 2

\* geoip.lookup(ip): the country of a public address, null for a local or
\* invalid one
GeoLookup == "8.8.8.8" :> "US" @@ "91.198.174.192" :> "NL" @@ "127.0.0.1" :> NullCountry

\* a row before the run: its address, its country (NULL for rows logged
\* before the column existed) and its other columns
BackfillRowKinds ==
  [ip : DOMAIN GeoLookup, country : {NullCountry}, source : {"fb"}, type : {"click"}]
  \cup [ip : {"8.8.8.8"}, country : {"US"}, source : {"tg"}, type : {"preview"}]

BackfillTables == UNION {[1..n -> BackfillRowKinds] : n \in 0..MaxBackfillRows}

\* ids of the rows WHERE country IS NULL
NullIds(rows) == {id \in DOMAIN rows : rows[id].country = NullCountry}

InitBackfill ==
  /\ IdleServer
  /\ html = NoHtml
  /\ bot = NoBot
  /\ upd = NoUpdate
  /\ wp = NoPost
  /\ \E table \in BackfillTables :
       backfill = [pc |-> "count", start |-> table, rows |-> table, totalRecords |-> 0,
                   offset |-> 0, totalUpdated |-> 0, totalSkipped |-> 0]

\* SELECT COUNT(*) ... WHERE country IS NULL; the script returns when it is 0
CountRecords ==
  /\ backfill.pc = "count"
  /\ backfill' = [backfill EXCEPT
                    !.totalRecords = Cardinality(NullIds(backfill.rows)),
                    !.pc = IF NullIds(backfill.rows) = {} THEN "done" ELSE "loop"]
  /\ UNCHANGED <<req, clicks, wpInUse, wpPool, urlCase, urlOut, og, dates, stats,
                 html, bot, upd, wp>>

\* the rows a SELECT ... WHERE country IS NULL LIMIT limit OFFSET offset can
\* return: the query has no ORDER BY, so any rows that stand after the first
\* offset ones in some order of the matching rows
BatchesAt(rows, limit, offset) ==
  {batch \in SUBSET NullIds(rows) :
     Cardinality(batch) =
       Min(limit, IF Cardinality(NullIds(rows)) > offset
                  THEN Cardinality(NullIds(rows)) - offset ELSE 0)}

\* UPDATE clicks SET country = ? WHERE id = ? for the records of the batch
\* whose address resolves
UpdateBatch(rows, batch) ==
  [id \in DOMAIN rows |->
     IF id \in batch /\ GeoLookup[rows[id].ip] # NullCountry
     THEN [rows[id] EXCEPT !.country = GeoLookup[rows[id].ip]]
     ELSE rows[id]]

Resolvable(rows, batch) == {id \in batch : GeoLookup[rows[id].ip] # NullCountry}

\* one pass of the while loop; after the last one the script prints its
\* statistics and ends
ProcessBatch ==
  /\ backfill.pc = "loop"
  /\ \E batch \in BatchesAt(backfill.rows, BatchSize, backfill.offset) :
       backfill' =
         [backfill EXCEPT
            !.rows = UpdateBatch(backfill.rows, batch),
            !.totalUpdated = @ + Cardinality(Resolvable(backfill.rows, batch)),
            !.totalSkipped = @ + Cardinality(batch \ Resolvable(backfill.rows, batch)),
            !.offset = @ + BatchSize,
            !.pc = IF backfill.offset + BatchSize < backfill.totalRecords
                   THEN "loop" ELSE "done"]
  /\ UNCHANGED <<req, clicks, wpInUse, wpPool, urlCase, urlOut, og, dates, stats,
                 html, bot, upd, wp>>

\* a query of the script rejects: the catch rethrows and the run ends
BackfillQueryFailed ==
  /\ backfill.pc \in {"count", "loop"}
  /\ backfill' = [backfill EXCEPT !.pc = "failed"]
  /\ UNCHANGED <<req, clicks, wpInUse, wpPool, urlCase, urlOut, og, dates, stats,
                 html, bot, upd, wp>>

NextBackfill == CountRecords \/ ProcessBatch \/ BackfillQueryFailed

SpecBackfill == InitBackfill /\ [][NextBackfill]_vars

\* C30: when the backfill has finished, every row that had no country at the
\* start and whose address resolves has that country stored, a row whose
\* address does not resolve still has none, and no other column of any row
\* has changed.
C30_BackfillComplete ==
  backfill.pc = "done" =>
    /\ DOMAIN backfill.rows = DOMAIN backfill.start
    /\ \A id \in DOMAIN backfill.start :
         /\ backfill.rows[id].country =
              (IF backfill.start[id].country = NullCountry
               THEN GeoLookup[backfill.start[id].ip]
               ELSE backfill.start[id].country)
         /\ [backfill.rows[id] EXCEPT !.country = NullCountry] =
              [backfill.start[id] EXCEPT !.country = NullCountry]

====
